---- MODULE Spec2Model ----
(***************************************************************************)
(* A model of the readfeed pull parsers: the content window extractor of   *)
(* xml.rs, the element dispatchers and the lazy hierarchical iterators of  *)
(* atom.rs and opml.rs.  The input buffer is a sequence of markup tokens,  *)
(* each with its literal text, optionally followed by an incomplete        *)
(* markup fragment; every position is a byte offset into that buffer.      *)
(***************************************************************************)
EXTENDS Integers, Sequences, FiniteSets, TLC

VARIABLES
    input,        \* the caller's buffer: [toks, frag]
    fmt,          \* the format module in use: "atom" or "opml"
    tag,          \* scan: the start tag whose content is being collected
    begin,        \* scan: collect_bytes_until_end_tag's `begin`
    pos,          \* scan: the cursor `*pos`
    end,          \* scan: read_until_end_tag's `end`
    start_count,  \* scan: read_until_end_tag's `start_count`
    pc,           \* scan: "loop", "break", "exhausted", then "done"
    content,      \* scan: the slice returned by collect_bytes_until_end_tag
    iters,        \* iteration: the iterators constructed so far
    yielded,      \* iteration: per iterator, what its next() calls returned
    elem,         \* dispatch: the element built by the latest `new` call
    needle,       \* find_attribute: the attribute name asked for
    result        \* the value returned by find_attribute or detect_type

vars == <<input, fmt, tag, begin, pos, end, start_count, pc, content,
          iters, yielded, elem, needle, result>>

-----------------------------------------------------------------------------
(* Bounds *)

MaxLen == 3       \* tokens after the opening tag of a window scan
MaxDoc == 2       \* tokens of a generated document, below its root tags
MaxFrag == 1      \* bytes of a trailing incomplete markup fragment
MaxNone == 1      \* next() calls made on iterators that have returned None before
MaxRaw == 3       \* tokens of a flat document
MaxAttrs == 3     \* attributes of a tag
MaxDetect == 3    \* tokens of a document given to detect_type

-----------------------------------------------------------------------------
(* Tokens of the token source (maybe_xml), with their literal text *)

None == [ty |-> "None"]

\* TagName::as_str: the qualified name, prefix and local part
QName(prefix, local) == IF prefix = "" THEN local ELSE prefix \o ":" \o local

StartTag(p, l) ==
    [ty |-> "StartTag", prefix |-> p, local |-> l, text |-> "<" \o QName(p, l) \o ">"]

EndTag(p, l) ==
    [ty |-> "EndTag", prefix |-> p, local |-> l, text |-> "</" \o QName(p, l) \o ">"]

EmptyElementTag(p, l) ==
    [ty |-> "EmptyElementTag", prefix |-> p, local |-> l, text |-> "<" \o QName(p, l) \o "/>"]

Characters(s) ==
    [ty |-> "Characters", prefix |-> "", local |-> "", text |-> s]

Comment ==
    [ty |-> "Comment", prefix |-> "", local |-> "", text |-> "<!--c-->"]

Cdata ==
    [ty |-> "Cdata", prefix |-> "", local |-> "", text |-> "<![CDATA[d]]>"]

ProcessingInstruction ==
    [ty |-> "ProcessingInstruction", prefix |-> "", local |-> "", text |-> "<?p?>"]

Declaration ==
    [ty |-> "Declaration", prefix |-> "", local |-> "", text |-> "<!D>"]

\* the two bytes of the character U+00A0 (no-break space)
NBSP == "__"

\* character runs that str::trim reduces to the empty string
WhitespaceRuns == {" ", "\n ", "\n\t ", NBSP}

\* a CDATA section whose content is one space
CdataBlank ==
    [ty |-> "Cdata", prefix |-> "", local |-> "", text |-> "<![CDATA[ ]]>"]

\* Cdata::content: the text between <![CDATA[ and ]]>
cdata_content(t) == IF t.text = "<![CDATA[ ]]>" THEN " " ELSE "d"

\* str::chars on the character runs of the model
chars(s) ==
    CASE s = "" -> <<>>
      [] s = "\n " -> <<"\n", " ">>
      [] s = "\n\t " -> <<"\n", "\t", " ">>
      [] s = " {" -> <<" ", "{">>
      [] OTHER -> <<s>>

\* char::is_ascii_whitespace
is_ascii_whitespace(c) == c \in {" ", "\t", "\n", "\r"}

\* char::is_whitespace: the characters with the Unicode White_Space property
is_whitespace(c) == c \in {" ", "\t", "\n", "\r", NBSP}

\* attribute values with white space around them, and what str::trim leaves
Padded ==
    [s \in {" Feed ", "alternate\n"} |->
        CASE s = " Feed " -> "Feed"
          [] s = "alternate\n" -> "alternate"]

\* str::trim on the character runs of the model
trim(s) ==
    IF s \in WhitespaceRuns THEN ""
    ELSE IF s \in DOMAIN Padded THEN Padded[s]
    ELSE s

\* the text of an incomplete markup fragment of n bytes
RECURSIVE FragText(_)
FragText(n) == IF n = 0 THEN "" ELSE IF n = 1 THEN "<" ELSE FragText(n - 1) \o "b"

\* str::to_ascii_lowercase on the names of the model
UpperNames ==
    [s \in {"A", "P", "Entry", "ID", "OUTLINE", "Feed", "FEED", "TITLE", "Opml",
            "managingEditor", "webMaster", "pubDate", "lastBuildDate",
            "skipHours", "skipDays", "dateCreated", "dateModified",
            "ownerName", "ownerEmail", "expansionState", "vertScrollState",
            "windowTop", "windowLeft", "windowBottom", "windowRight",
            "MANAGINGEDITOR", "WindowTop", "HREF", "Rel", "RSS", "Rss",
            "LINK", "Application/Atom+XML"} |->
        CASE s = "A" -> "a"
          [] s = "P" -> "p"
          [] s = "Entry" -> "entry"
          [] s = "ID" -> "id"
          [] s = "OUTLINE" -> "outline"
          [] s = "Feed" -> "feed"
          [] s = "FEED" -> "feed"
          [] s = "TITLE" -> "title"
          [] s = "Opml" -> "opml"
          [] s = "managingEditor" -> "managingeditor"
          [] s = "webMaster" -> "webmaster"
          [] s = "pubDate" -> "pubdate"
          [] s = "lastBuildDate" -> "lastbuilddate"
          [] s = "skipHours" -> "skiphours"
          [] s = "skipDays" -> "skipdays"
          [] s = "dateCreated" -> "datecreated"
          [] s = "dateModified" -> "datemodified"
          [] s = "ownerName" -> "ownername"
          [] s = "ownerEmail" -> "owneremail"
          [] s = "expansionState" -> "expansionstate"
          [] s = "vertScrollState" -> "vertscrollstate"
          [] s = "windowTop" -> "windowtop"
          [] s = "windowLeft" -> "windowleft"
          [] s = "windowBottom" -> "windowbottom"
          [] s = "windowRight" -> "windowright"
          [] s = "MANAGINGEDITOR" -> "managingeditor"
          [] s = "WindowTop" -> "windowtop"
          [] s = "HREF" -> "href"
          [] s = "Rel" -> "rel"
          [] s = "RSS" -> "rss"
          [] s = "Rss" -> "rss"
          [] s = "LINK" -> "link"
          [] s = "Application/Atom+XML" -> "application/atom+xml"]

to_ascii_lowercase(s) == IF s \in DOMAIN UpperNames THEN UpperNames[s] ELSE s

\* str::eq_ignore_ascii_case
eq_ignore_ascii_case(a, b) == to_ascii_lowercase(a) = to_ascii_lowercase(b)

-----------------------------------------------------------------------------
(* The buffer and the token source *)

\* the tokens of a buffer laid out from byte offset `at`: each token is a
\* slice [lo, hi) of the buffer
RECURSIVE Layout(_, _)
Layout(toks, at) ==
    IF toks = <<>> THEN <<>>
    ELSE LET t == Head(toks) IN
         <<[ty |-> t.ty, prefix |-> t.prefix, local |-> t.local, text |-> t.text,
            lo |-> at, hi |-> at + Len(t.text)]>>
         \o Layout(Tail(toks), at + Len(t.text))

\* the buffers with one of the token sequences docs and one of the fragments
Buffers(docs, frags) == {[toks |-> Layout(d, 0), frag |-> g] : d \in docs, g \in frags}

\* byte offset just after the i-th token of the buffer
TokEnd(i) == IF i = 0 THEN 0 ELSE input.toks[i].hi

\* byte offset of the first byte of the i-th token
TokStart(i) == input.toks[i].lo

NToks == Len(input.toks)

\* str::len of the whole input
BufLen == TokEnd(NToks) + Len(FragText(input.frag))

\* Reader::from_str over the byte range [lo, hi) of the buffer
Reader(lo, hi) == [lo |-> lo, hi |-> hi]

\* Reader::tokenize(&mut pos): the token that starts at pos and is complete
\* inside the reader's input, with the position after it; None otherwise
tokenize(reader, p) ==
    LET a == reader.lo + p
        cand == {i \in 1..NToks : input.toks[i].lo = a /\ input.toks[i].hi <= reader.hi}
    IN IF cand = {}
         THEN [tok |-> None, idx |-> 0, pos |-> p]
         ELSE LET i == CHOOSE i \in cand : TRUE
              IN [tok |-> input.toks[i], idx |-> i, pos |-> input.toks[i].hi - reader.lo]

-----------------------------------------------------------------------------
(* xml.rs: the content window extractor *)

\* the comparison of a later tag's name with the opening tag's name made by
\* the four-argument extractor that rss.rs and opml.rs call: local names only
same_local_name(t, open) == eq_ignore_ascii_case(t.local, open.local)

\* TagName::as_str of a tag, lowered to ASCII lower case
as_str_lowercase(t) == QName(to_ascii_lowercase(t.prefix), to_ascii_lowercase(t.local))

\* same_tag_name that takes an end tag of any name for the opening tag's
same_tag_name_AnyEndTag(f, t, open) ==
    \/ t.ty = "EndTag"
    \/ IF f = "atom"
         THEN as_str_lowercase(t) = as_str_lowercase(open)
         ELSE same_local_name(t, open)

\* same_tag_name that compares local names in every format
same_tag_name_LocalOnly(f, t, open) == same_local_name(t, open)

\* xml.rs:67 and xml.rs:75: tag.name().as_str().eq_ignore_ascii_case(tag_name)
same_tag_name(f, t, open) ==
    IF f = "atom"
      THEN as_str_lowercase(t) = as_str_lowercase(open)
      ELSE same_local_name(t, open)

\* ScanToken without the depth counter: the first end tag of the name stops the scan
ScanToken_NoDepth(f, tag_name, reader, st) ==
    LET r == tokenize(reader, st.pos) IN
    IF r.tok = None
      THEN [st EXCEPT !.pc = "exhausted"]
    ELSE IF r.tok.ty = "EndTag" /\ same_tag_name(f, r.tok, tag_name)
      THEN [pos |-> r.pos, end |-> st.end, start_count |-> 0, pc |-> "break"]
    ELSE [pos |-> r.pos, end |-> r.pos, start_count |-> st.start_count, pc |-> "loop"]

\* ScanToken with `end = *pos` also taken on the matching end tag
ScanToken_EndAfterTag(f, tag_name, reader, st) ==
    LET r == tokenize(reader, st.pos) IN
    IF r.tok = None
      THEN [st EXCEPT !.pc = "exhausted"]
    ELSE IF r.tok.ty = "EndTag" /\ same_tag_name(f, r.tok, tag_name)
      THEN IF st.start_count - 1 = 0
             THEN [pos |-> r.pos, end |-> r.pos, start_count |-> 0, pc |-> "break"]
             ELSE [pos |-> r.pos, end |-> r.pos,
                   start_count |-> st.start_count - 1, pc |-> "loop"]
    ELSE IF r.tok.ty = "StartTag" /\ same_tag_name(f, r.tok, tag_name)
      THEN [pos |-> r.pos, end |-> r.pos,
            start_count |-> st.start_count + 1, pc |-> "loop"]
    ELSE [pos |-> r.pos, end |-> r.pos, start_count |-> st.start_count, pc |-> "loop"]

\* ScanToken with `end = *pos` taken in the tag arms only
ScanToken_EndOnTagsOnly(f, tag_name, reader, st) ==
    LET r == tokenize(reader, st.pos) IN
    IF r.tok = None
      THEN [st EXCEPT !.pc = "exhausted"]
    ELSE IF r.tok.ty = "EndTag" /\ same_tag_name(f, r.tok, tag_name)
      THEN IF st.start_count - 1 = 0
             THEN [pos |-> r.pos, end |-> st.end, start_count |-> 0, pc |-> "break"]
             ELSE [pos |-> r.pos, end |-> r.pos,
                   start_count |-> st.start_count - 1, pc |-> "loop"]
    ELSE IF r.tok.ty = "StartTag" /\ same_tag_name(f, r.tok, tag_name)
      THEN [pos |-> r.pos, end |-> r.pos,
            start_count |-> st.start_count + 1, pc |-> "loop"]
    ELSE [pos |-> r.pos, end |-> st.end, start_count |-> st.start_count, pc |-> "loop"]

\* ScanToken that, when the token source is exhausted, takes the end of the
\* reader's input for `end`
ScanToken_EndOfInput(f, tag_name, reader, st) ==
    LET r == tokenize(reader, st.pos) IN
    IF r.tok = None
      THEN [st EXCEPT !.pc = "exhausted", !.end = reader.hi - reader.lo]
    ELSE IF r.tok.ty = "EndTag" /\ same_tag_name(f, r.tok, tag_name)
      THEN IF st.start_count - 1 = 0
             THEN [pos |-> r.pos, end |-> st.end, start_count |-> 0, pc |-> "break"]
             ELSE [pos |-> r.pos, end |-> r.pos,
                   start_count |-> st.start_count - 1, pc |-> "loop"]
    ELSE IF r.tok.ty = "StartTag" /\ same_tag_name(f, r.tok, tag_name)
      THEN [pos |-> r.pos, end |-> r.pos,
            start_count |-> st.start_count + 1, pc |-> "loop"]
    ELSE [pos |-> r.pos, end |-> r.pos, start_count |-> st.start_count, pc |-> "loop"]

\* one turn of the loop of read_until_end_tag, from the loop state
\* st = [pos, end, start_count, pc]
ScanToken(f, tag_name, reader, st) ==
    LET r == tokenize(reader, st.pos) IN
    IF r.tok = None
      THEN [st EXCEPT !.pc = "exhausted"]
    ELSE IF r.tok.ty = "EndTag" /\ same_tag_name(f, r.tok, tag_name)
      THEN IF st.start_count - 1 = 0
             THEN [pos |-> r.pos, end |-> st.end, start_count |-> 0, pc |-> "break"]
             ELSE [pos |-> r.pos, end |-> r.pos,
                   start_count |-> st.start_count - 1, pc |-> "loop"]
    ELSE IF r.tok.ty = "StartTag" /\ same_tag_name(f, r.tok, tag_name)
      THEN [pos |-> r.pos, end |-> r.pos,
            start_count |-> st.start_count + 1, pc |-> "loop"]
    ELSE [pos |-> r.pos, end |-> r.pos, start_count |-> st.start_count, pc |-> "loop"]

\* the loop of read_until_end_tag run to its exit
RECURSIVE ScanLoop(_, _, _, _)
ScanLoop(f, tag_name, reader, st) ==
    IF st.pc # "loop" THEN st ELSE ScanLoop(f, tag_name, reader, ScanToken(f, tag_name, reader, st))

\* read_until_end_tag with `end` starting at 0 instead of *pos
read_until_end_tag_EndZero(f, tag_name, reader, p) ==
    LET st == ScanLoop(f, tag_name, reader,
                       [pos |-> p, end |-> 0, start_count |-> 1, pc |-> "loop"])
    IN [end |-> st.end, pos |-> st.pos]

\* read_until_end_tag(tag_name, reader, pos): the returned end and the new *pos
read_until_end_tag(f, tag_name, reader, p) ==
    LET st == ScanLoop(f, tag_name, reader,
                       [pos |-> p, end |-> p, start_count |-> 1, pc |-> "loop"])
    IN [end |-> st.end, pos |-> st.pos]

\* the outcome of a slice expression whose bounds are out of order or out of
\* range: the thread panics
Panic == [lo |-> 0, hi |-> 0, panic |-> TRUE]

\* &input[b..e] of the reader's input (xml.rs:102-103), as a byte range of
\* the buffer
Slice(reader, b, e) ==
    IF b <= e /\ reader.lo + e <= reader.hi
      THEN Reader(reader.lo + b, reader.lo + e)
      ELSE Panic

\* collect_bytes_until_end_tag(tag_name, reader, pos): the slice
\* input[begin..end] as a byte range of the buffer, and the new *pos
collect_bytes_until_end_tag(f, tag_name, reader, p) ==
    LET r == read_until_end_tag(f, tag_name, reader, p)
    IN [content |-> Slice(reader, p, r.end), pos |-> r.pos]

-----------------------------------------------------------------------------
(* The element dispatchers: each `new` tests the local name against the
   names of its level in source order and returns at the first equal one *)

\* one return_content! / return_content_with_tag! / return_iter! line
V(n, v, k, it) == [name |-> n, variant |-> v, kind |-> k, iter |-> it]

\* atom.rs:373-375, PersonElem::new
atom_PersonElem ==
    <<V("name", "Name", "content", ""),
      V("uri", "Uri", "content", ""),
      V("email", "Email", "content", "")>>

\* atom.rs:405-419, SourceElem::new
atom_SourceElem ==
    <<V("author", "Author", "iter", "PersonIter"),
      V("category", "Category", "content", ""),
      V("contributor", "Contributor", "iter", "PersonIter"),
      V("generator", "Generator", "content", ""),
      V("icon", "Icon", "content", ""),
      V("id", "Id", "content", ""),
      V("link", "Link", "content", ""),
      V("logo", "Logo", "content", ""),
      V("rights", "Rights", "content", ""),
      V("subtitle", "Subtitle", "content", ""),
      V("title", "Title", "content", ""),
      V("updated", "Updated", "content", "")>>

\* atom.rs:449-465 with a further line that tests the name ID for Link
atom_EntryElem_Overlap ==
    <<V("author", "Author", "iter", "PersonIter"),
      V("category", "Category", "content", ""),
      V("content", "Content", "content", ""),
      V("contributor", "Contributor", "iter", "PersonIter"),
      V("id", "Id", "content", ""),
      V("link", "Link", "content", ""),
      V("published", "Published", "content", ""),
      V("rights", "Rights", "content", ""),
      V("source", "Source", "iter", "SourceIter"),
      V("summary", "Summary", "content", ""),
      V("title", "Title", "content", ""),
      V("updated", "Updated", "content", ""),
      V("ID", "Link", "content", "")>>

\* atom.rs:449-465, EntryElem::new
atom_EntryElem ==
    <<V("author", "Author", "iter", "PersonIter"),
      V("category", "Category", "content", ""),
      V("content", "Content", "content", ""),
      V("contributor", "Contributor", "iter", "PersonIter"),
      V("id", "Id", "content", ""),
      V("link", "Link", "content", ""),
      V("published", "Published", "content", ""),
      V("rights", "Rights", "content", ""),
      V("source", "Source", "iter", "SourceIter"),
      V("summary", "Summary", "content", ""),
      V("title", "Title", "content", ""),
      V("updated", "Updated", "content", "")>>

\* atom.rs:495-511, FeedElem::new
atom_FeedElem ==
    <<V("entry", "Entry", "iter", "EntryIter"),
      V("author", "Author", "iter", "PersonIter"),
      V("category", "Category", "content", ""),
      V("contributor", "Contributor", "iter", "PersonIter"),
      V("generator", "Generator", "content", ""),
      V("icon", "Icon", "content", ""),
      V("id", "Id", "content", ""),
      V("link", "Link", "content", ""),
      V("logo", "Logo", "content", ""),
      V("rights", "Rights", "content", ""),
      V("subtitle", "Subtitle", "content", ""),
      V("title", "Title", "content", ""),
      V("updated", "Updated", "content", "")>>

\* atom.rs:533, Elem::new
atom_Elem ==
    <<V("feed", "Feed", "iter", "FeedIter")>>

\* opml.rs:272-286, HeadElem::new
opml_HeadElem ==
    <<V("title", "Title", "content", ""),
      V("dateCreated", "DateCreated", "content", ""),
      V("dateModified", "DateModified", "content", ""),
      V("ownerName", "OwnerName", "content", ""),
      V("ownerEmail", "OwnerEmail", "content", ""),
      V("expansionState", "ExpansionState", "content", ""),
      V("vertScrollState", "VertScrollState", "content", ""),
      V("windowTop", "WindowTop", "content", ""),
      V("windowLeft", "WindowLeft", "content", ""),
      V("windowBottom", "WindowBottom", "content", ""),
      V("windowRight", "WindowRight", "content", "")>>

\* opml.rs:311, BodyElem::new
opml_BodyElem ==
    <<V("outline", "Outline", "iter", "OutlineIter")>>

\* opml.rs:336, OutlineElem::new
opml_OutlineElem ==
    <<V("outline", "Outline", "iter", "OutlineIter")>>

\* opml.rs:361-362, OpmlElem::new
opml_OpmlElem ==
    <<V("head", "Head", "iter", "HeadIter"),
      V("body", "Body", "iter", "BodyIter")>>

\* opml.rs:387, Elem::new
opml_Elem ==
    <<V("opml", "Opml", "iter", "OpmlIter")>>

\* rss.rs:360-365, ImageElem::new
rss_ImageElem ==
    <<V("url", "Url", "content", ""),
      V("title", "Title", "content", ""),
      V("link", "Link", "content", ""),
      V("width", "Width", "content", ""),
      V("height", "Height", "content", ""),
      V("description", "Description", "content", "")>>

\* rss.rs:386-396, ItemElem::new
rss_ItemElem ==
    <<V("title", "Title", "content", ""),
      V("link", "Link", "content", ""),
      V("description", "Description", "content", ""),
      V("author", "Author", "content", ""),
      V("comments", "Comments", "content", ""),
      V("pubDate", "PubDate", "content", ""),
      V("guid", "Guid", "content", ""),
      V("category", "Category", "content", ""),
      V("enclosure", "Enclosure", "content", ""),
      V("source", "Source", "content", "")>>

\* rss.rs:417, SkipHoursElem::new
rss_SkipHoursElem ==
    <<V("hour", "Hour", "content", "")>>

\* rss.rs:438, SkipDaysElem::new
rss_SkipDaysElem ==
    <<V("day", "Day", "content", "")>>

\* rss.rs:471-499, ChannelElem::new
rss_ChannelElem ==
    <<V("item", "Item", "iter", "ChannelItemIter"),
      V("title", "Title", "content", ""),
      V("link", "Link", "content", ""),
      V("description", "Description", "content", ""),
      V("language", "Language", "content", ""),
      V("copyright", "Copyright", "content", ""),
      V("managingEditor", "ManagingEditor", "content", ""),
      V("webMaster", "Webmaster", "content", ""),
      V("pubDate", "PubDate", "content", ""),
      V("lastBuildDate", "LastBuildDate", "content", ""),
      V("generator", "Generator", "content", ""),
      V("docs", "Docs", "content", ""),
      V("ttl", "Ttl", "content", ""),
      V("rating", "Rating", "content", ""),
      V("image", "Image", "iter", "ChannelImageIter"),
      V("skipHours", "SkipHours", "iter", "ChannelSkipHoursIter"),
      V("skipDays", "SkipDays", "iter", "ChannelSkipDaysIter"),
      V("category", "Category", "content", "")>>

\* rss.rs:524, RssElem::new
rss_RssElem ==
    <<V("channel", "Channel", "iter", "ChannelIter")>>

\* rss.rs:549, Elem::new
rss_Elem ==
    <<V("rss", "Rss", "iter", "RssIter")>>

\* the `new` that the iterator type it of format f is instantiated with
\* (the impl_iter! lines of atom.rs:539-561, opml.rs, rss.rs:555-583)
Vocabulary(f, it) ==
    CASE f = "atom" /\ it = "Iter" -> atom_Elem
      [] f = "atom" /\ it = "FeedIter" -> atom_FeedElem
      [] f = "atom" /\ it = "EntryIter" -> atom_EntryElem
      [] f = "atom" /\ it = "SourceIter" -> atom_SourceElem
      [] f = "atom" /\ it = "PersonIter" -> atom_PersonElem
      [] f = "opml" /\ it = "Iter" -> opml_Elem
      [] f = "opml" /\ it = "OpmlIter" -> opml_OpmlElem
      [] f = "opml" /\ it = "HeadIter" -> opml_HeadElem
      [] f = "opml" /\ it = "BodyIter" -> opml_BodyElem
      [] f = "opml" /\ it = "OutlineIter" -> opml_OutlineElem
      [] f = "rss" /\ it = "Iter" -> rss_Elem
      [] f = "rss" /\ it = "RssIter" -> rss_RssElem
      [] f = "rss" /\ it = "ChannelIter" -> rss_ChannelElem
      [] f = "rss" /\ it = "ChannelItemIter" -> rss_ItemElem
      [] f = "rss" /\ it = "ChannelImageIter" -> rss_ImageElem
      [] f = "rss" /\ it = "ChannelSkipHoursIter" -> rss_SkipHoursElem
      [] f = "rss" /\ it = "ChannelSkipDaysIter" -> rss_SkipDaysElem

IterTypes(f) ==
    CASE f = "atom" -> {"Iter", "FeedIter", "EntryIter", "SourceIter", "PersonIter"}
      [] f = "opml" -> {"Iter", "OpmlIter", "HeadIter", "BodyIter", "OutlineIter"}
      [] f = "rss" -> {"Iter", "RssIter", "ChannelIter", "ChannelItemIter",
                       "ChannelImageIter", "ChannelSkipHoursIter", "ChannelSkipDaysIter"}

\* local_name taken to be the whole qualified name
local_name_Qualified(t) == QName(t.prefix, t.local)

\* the name a dispatcher tests: tag_name.local().as_str() (atom.rs:473), or
\* the local_name argument (opml.rs:150-156, rss.rs:148-161)
local_name(t) == t.local

\* the macro test local_name.eq_ignore_ascii_case($local_name), line by line
\* from line k of the table: the first line that matches, 0 when none does
RECURSIVE FirstMatch(_, _, _)
FirstMatch(voc, name, k) ==
    IF k > Len(voc) THEN 0
    ELSE IF eq_ignore_ascii_case(name, voc[k].name) THEN k
    ELSE FirstMatch(voc, name, k + 1)

\* $fn_name(tag, tag_name, content): the typed element for a tag; a leaf or
\* Unknown keeps {tag, content}, a container becomes the nested iterator
\* {tag, reader: Reader::from_str(content), pos: 0}
new(f, it, t, c) ==
    LET k == FirstMatch(Vocabulary(f, it), local_name(t), 1) IN
    IF k = 0
      THEN [variant |-> "Unknown", kind |-> "content", tag |-> t,
            content |-> c, iter |-> ""]
      ELSE [variant |-> Vocabulary(f, it)[k].variant, kind |-> Vocabulary(f, it)[k].kind,
            tag |-> t, content |-> c, iter |-> Vocabulary(f, it)[k].iter]

\* $elem_ty::Raw(token)
Raw(t) ==
    [variant |-> "Raw", kind |-> "raw", tag |-> t, content |-> Reader(0, 0), iter |-> ""]

\* the content "" given to an empty-element tag: a literal, not a buffer slice
EmptyContent == Reader(0, 0)

\* next that leaves self.pos right after the start tag
RECURSIVE next_NoSkip(_, _)
next_NoSkip(f, it) ==
    LET r == tokenize(it.reader, it.pos)
    IN IF r.tok = None
         THEN [item |-> None, pos |-> it.pos]
       ELSE IF r.tok.ty = "StartTag"
         THEN LET c == collect_bytes_until_end_tag(f, r.tok, it.reader, r.pos)
              IN [item |-> new(f, it.ty, r.tok, c.content), pos |-> r.pos]
       ELSE IF r.tok.ty = "EmptyElementTag"
         THEN [item |-> new(f, it.ty, r.tok, EmptyContent), pos |-> r.pos]
       ELSE IF r.tok.ty = "Characters" /\ trim(r.tok.text) = ""
         THEN next_NoSkip(f, [it EXCEPT !.pos = r.pos])
       ELSE [item |-> Raw(r.tok), pos |-> r.pos]

\* next that starts over from position 0 once the token source is exhausted
RECURSIVE next_Rewind(_, _)
next_Rewind(f, it) ==
    LET r == tokenize(it.reader, it.pos)
    IN IF r.tok = None
         THEN [item |-> None, pos |-> 0]
       ELSE IF r.tok.ty = "StartTag"
         THEN LET c == collect_bytes_until_end_tag(f, r.tok, it.reader, r.pos)
              IN [item |-> new(f, it.ty, r.tok, c.content), pos |-> c.pos]
       ELSE IF r.tok.ty = "EmptyElementTag"
         THEN [item |-> new(f, it.ty, r.tok, EmptyContent), pos |-> r.pos]
       ELSE IF r.tok.ty = "Characters" /\ trim(r.tok.text) = ""
         THEN next_Rewind(f, [it EXCEPT !.pos = r.pos])
       ELSE [item |-> Raw(r.tok), pos |-> r.pos]

\* next that passes over comments as it passes over whitespace
RECURSIVE next_DropComment(_, _)
next_DropComment(f, it) ==
    LET r == tokenize(it.reader, it.pos)
    IN IF r.tok = None
         THEN [item |-> None, pos |-> it.pos]
       ELSE IF r.tok.ty = "StartTag"
         THEN LET c == collect_bytes_until_end_tag(f, r.tok, it.reader, r.pos)
              IN [item |-> new(f, it.ty, r.tok, c.content), pos |-> c.pos]
       ELSE IF r.tok.ty = "EmptyElementTag"
         THEN [item |-> new(f, it.ty, r.tok, EmptyContent), pos |-> r.pos]
       ELSE IF r.tok.ty = "Characters" /\ trim(r.tok.text) = ""
         THEN next_DropComment(f, [it EXCEPT !.pos = r.pos])
       ELSE IF r.tok.ty = "Comment"
         THEN next_DropComment(f, [it EXCEPT !.pos = r.pos])
       ELSE [item |-> Raw(r.tok), pos |-> r.pos]

\* next that collects a content window for an empty-element tag as well
RECURSIVE next_EmptyCollects(_, _)
next_EmptyCollects(f, it) ==
    LET r == tokenize(it.reader, it.pos)
    IN IF r.tok = None
         THEN [item |-> None, pos |-> it.pos]
       ELSE IF r.tok.ty \in {"StartTag", "EmptyElementTag"}
         THEN LET c == collect_bytes_until_end_tag(f, r.tok, it.reader, r.pos)
              IN [item |-> new(f, it.ty, r.tok, c.content), pos |-> c.pos]
       ELSE IF r.tok.ty = "Characters" /\ trim(r.tok.text) = ""
         THEN next_EmptyCollects(f, [it EXCEPT !.pos = r.pos])
       ELSE [item |-> Raw(r.tok), pos |-> r.pos]

\* next that returns a whitespace-only character run as Raw
next_RawBlank(f, it) ==
    LET r == tokenize(it.reader, it.pos)
    IN IF r.tok = None
         THEN [item |-> None, pos |-> it.pos]
       ELSE IF r.tok.ty = "StartTag"
         THEN LET c == collect_bytes_until_end_tag(f, r.tok, it.reader, r.pos)
              IN [item |-> new(f, it.ty, r.tok, c.content), pos |-> c.pos]
       ELSE IF r.tok.ty = "EmptyElementTag"
         THEN [item |-> new(f, it.ty, r.tok, EmptyContent), pos |-> r.pos]
       ELSE [item |-> Raw(r.tok), pos |-> r.pos]

\* next that returns Raw and leaves self.pos where the call found it
RECURSIVE next_RawStay(_, _)
next_RawStay(f, it) ==
    LET r == tokenize(it.reader, it.pos)
    IN IF r.tok = None
         THEN [item |-> None, pos |-> it.pos]
       ELSE IF r.tok.ty = "StartTag"
         THEN LET c == collect_bytes_until_end_tag(f, r.tok, it.reader, r.pos)
              IN [item |-> new(f, it.ty, r.tok, c.content), pos |-> c.pos]
       ELSE IF r.tok.ty = "EmptyElementTag"
         THEN [item |-> new(f, it.ty, r.tok, EmptyContent), pos |-> r.pos]
       ELSE IF r.tok.ty = "Characters" /\ trim(r.tok.text) = ""
         THEN next_RawStay(f, [it EXCEPT !.pos = r.pos])
       ELSE [item |-> Raw(r.tok), pos |-> it.pos]

\* next that returns an element built from a start tag and leaves self.pos
\* where the call found it
RECURSIVE next_StartStay(_, _)
next_StartStay(f, it) ==
    LET r == tokenize(it.reader, it.pos)
    IN IF r.tok = None
         THEN [item |-> None, pos |-> it.pos]
       ELSE IF r.tok.ty = "StartTag"
         THEN LET c == collect_bytes_until_end_tag(f, r.tok, it.reader, r.pos)
              IN [item |-> new(f, it.ty, r.tok, c.content), pos |-> it.pos]
       ELSE IF r.tok.ty = "EmptyElementTag"
         THEN [item |-> new(f, it.ty, r.tok, EmptyContent), pos |-> r.pos]
       ELSE IF r.tok.ty = "Characters" /\ trim(r.tok.text) = ""
         THEN next_StartStay(f, [it EXCEPT !.pos = r.pos])
       ELSE [item |-> Raw(r.tok), pos |-> r.pos]

\* Iterator::next of impl_iter! (atom.rs:207-244, opml.rs:142-189,
\* rss.rs:145-192) on the iterator it = [ty, reader, pos, ...]:
\* the returned item and the new self.pos
RECURSIVE next(_, _)
next(f, it) ==
    LET r == tokenize(it.reader, it.pos)
    IN IF r.tok = None
         THEN [item |-> None, pos |-> it.pos]
       ELSE IF r.tok.ty = "StartTag"
         THEN LET c == collect_bytes_until_end_tag(f, r.tok, it.reader, r.pos)
              IN [item |-> new(f, it.ty, r.tok, c.content), pos |-> c.pos]
       ELSE IF r.tok.ty = "EmptyElementTag"
         THEN [item |-> new(f, it.ty, r.tok, EmptyContent), pos |-> r.pos]
       ELSE IF r.tok.ty = "Characters" /\ trim(r.tok.text) = ""
         THEN next(f, [it EXCEPT !.pos = r.pos])
       ELSE [item |-> Raw(r.tok), pos |-> r.pos]

-----------------------------------------------------------------------------
(* The window scan, one loop turn per step *)

SeqsUpTo(S, n) == UNION {[1..k -> S] : k \in 0..n}

Formats == {"atom", "opml"}

\* the tokens that may follow the opening tag <a> of a scan
ScanAlphabet ==
    {StartTag("", "a"), StartTag("", "A"), StartTag("", "b"), StartTag("p", "a"),
     EndTag("", "a"), EndTag("", "A"), EndTag("", "b"), EndTag("p", "a"),
     EmptyElementTag("", "a"), Characters("x"),
     Comment, Cdata, ProcessingInstruction, Declaration}

\* the reader of a top-level iterator: Reader::from_str(input)
TopReader == Reader(0, BufLen)

NoScan ==
    /\ tag = None /\ begin = 0 /\ pos = 0 /\ end = 0 /\ start_count = 0
    /\ pc = "idle" /\ content = Reader(0, 0)

NoIteration == iters = <<>> /\ yielded = <<>>

NoCall == needle = "" /\ result = None

\* ScanInit with `end` starting at 0 instead of *pos (xml.rs:60)
ScanInit_EndZero ==
    /\ input \in Buffers({<<StartTag("", "a")>> \o s : s \in SeqsUpTo(ScanAlphabet, MaxLen)},
                         0..MaxFrag)
    /\ fmt = "atom"
    /\ tag = input.toks[1]
    /\ begin = input.toks[1].hi
    /\ pos = begin
    /\ end = 0
    /\ start_count = 1
    /\ pc = "loop"
    /\ content = Reader(0, 0)
    /\ NoIteration
    /\ elem = None
    /\ NoCall

\* the state on entry to the loop of read_until_end_tag, called by next()
\* right after it tokenized the start tag <a> at the head of the buffer
ScanInit ==
    /\ input \in Buffers({<<StartTag("", "a")>> \o s : s \in SeqsUpTo(ScanAlphabet, MaxLen)},
                         0..MaxFrag)
    /\ fmt = "atom"
    /\ tag = input.toks[1]
    /\ begin = input.toks[1].hi
    /\ pos = begin
    /\ end = begin
    /\ start_count = 1
    /\ pc = "loop"
    /\ content = Reader(0, 0)
    /\ NoIteration
    /\ elem = None
    /\ NoCall

ScanState == [pos |-> pos, end |-> end, start_count |-> start_count, pc |-> pc]

\* the loop turn taken from the current scan state
ScanTurn ==
    LET st == ScanToken(fmt, tag, TopReader, ScanState) IN
    /\ pos' = st.pos
    /\ end' = st.end
    /\ start_count' = st.start_count
    /\ pc' = st.pc
    /\ UNCHANGED <<input, fmt, tag, begin, content, iters, yielded, elem, needle, result>>

\* the token the next loop turn reads
Peek == tokenize(TopReader, pos).tok

\* xml.rs:66-73
ScanEndTag == pc = "loop" /\ Peek.ty = "EndTag" /\ ScanTurn

\* xml.rs:74-78
ScanStartTag == pc = "loop" /\ Peek.ty = "StartTag" /\ ScanTurn

\* xml.rs:79-84
ScanOther ==
    /\ pc = "loop"
    /\ Peek.ty \in {"EmptyElementTag", "Characters", "ProcessingInstruction",
                    "Declaration", "Comment", "Cdata"}
    /\ ScanTurn

\* xml.rs:64: tokenize returns None and the loop is left
ScanNone == pc = "loop" /\ Peek = None /\ ScanTurn

\* xml.rs:99-103: read_until_end_tag has returned `end`; slice input[begin..end]
Collect ==
    /\ pc \in {"break", "exhausted"}
    /\ content' = Slice(TopReader, begin, end)
    /\ pc' = "done"
    /\ UNCHANGED <<input, fmt, tag, begin, pos, end, start_count, iters, yielded, elem, needle, result>>

ScanNext == ScanEndTag \/ ScanStartTag \/ ScanOther \/ ScanNone \/ Collect

SpecScan == ScanInit /\ [][ScanNext]_vars

\* the tokens that may follow the opening tag of a scan over prefixed names
PrefixAlphabet ==
    {StartTag("", "a"), StartTag("p", "a"), StartTag("P", "A"),
     EndTag("", "a"), EndTag("p", "a"), EndTag("q", "a"), EndTag("", "b"),
     Characters("x")}

\* the state on entry to the loop of read_until_end_tag, called by next() of
\* a format module right after it tokenized the start tag <a> or <p:a>
PrefixInit ==
    /\ fmt \in {"atom", "rss", "opml"}
    /\ input \in Buffers({<<StartTag(p, "a")>> \o s :
                             p \in {"", "p"}, s \in SeqsUpTo(PrefixAlphabet, MaxLen)},
                         0..MaxFrag)
    /\ tag = input.toks[1]
    /\ begin = input.toks[1].hi
    /\ pos = begin
    /\ end = begin
    /\ start_count = 1
    /\ pc = "loop"
    /\ content = Reader(0, 0)
    /\ NoIteration
    /\ elem = None
    /\ NoCall

SpecPrefix == PrefixInit /\ [][ScanNext]_vars

-----------------------------------------------------------------------------
(* Iteration: a caller holds the top-level iterator and every nested
   iterator it was handed, and calls next() on any of them *)

\* a container name and a leaf name of the level below the root element
ContainerName(f) == IF f = "atom" THEN "entry" ELSE "outline"

LeafName(f) == IF f = "atom" THEN "id" ELSE "title"

\* the tokens of generated documents: for Atom a container, an element of no
\* level and tokens that are not tags; for OPML the self-nesting outline
IterAlphabet(f) ==
    IF f = "atom"
      THEN {StartTag("", ContainerName(f)), StartTag("", "x"),
            EndTag("", ContainerName(f)), EndTag("", "x"),
            EmptyElementTag("", ContainerName(f)),
            Characters("x"), Characters(" "), Comment}
      ELSE {StartTag("", ContainerName(f)), EndTag("", ContainerName(f)),
            EmptyElementTag("", ContainerName(f)), Characters(" ")}

\* the start tags that lead from the document root to the level of the
\* container elements, and their end tags
RootOpen(f) ==
    IF f = "atom" THEN <<StartTag("", "feed")>>
    ELSE <<StartTag("", "opml"), StartTag("", "body")>>

RootClose(f) ==
    IF f = "atom" THEN <<EndTag("", "feed")>>
    ELSE <<EndTag("", "body"), EndTag("", "opml")>>

\* generated documents: a token run alone, under an unclosed root, under a closed root
GeneratedDocs(f) ==
    LET runs == SeqsUpTo(IterAlphabet(f), MaxDoc) IN
    runs \cup {RootOpen(f) \o b : b \in runs} \cup {RootOpen(f) \o b \o RootClose(f) : b \in runs}

\* <feed><title>T</title><entry><id>1</id></entry></feed>
AtomScenario ==
    <<StartTag("", "feed"), StartTag("", "title"), Characters("T"), EndTag("", "title"),
      StartTag("", "entry"), StartTag("", "id"), Characters("1"), EndTag("", "id"),
      EndTag("", "entry"), EndTag("", "feed")>>

\* <opml><body><outline><outline/></outline><outline/></body></opml>
OpmlScenario ==
    <<StartTag("", "opml"), StartTag("", "body"), StartTag("", "outline"),
      EmptyElementTag("", "outline"), EndTag("", "outline"),
      EmptyElementTag("", "outline"), EndTag("", "body"), EndTag("", "opml")>>

\* <opml><body><outline><outline><x/></outline> </outline><OUTLINE/></body></opml>
OpmlNestedScenario ==
    <<StartTag("", "opml"), StartTag("", "body"), StartTag("", "outline"),
      StartTag("", "outline"), EmptyElementTag("", "x"), EndTag("", "outline"),
      Characters(" "), EndTag("", "outline"), EmptyElementTag("", "OUTLINE"),
      EndTag("", "body"), EndTag("", "opml")>>

\* <feed><link/> <entry/></feed>
AtomEmptyScenario ==
    <<StartTag("", "feed"), EmptyElementTag("", "link"), Characters(" "),
      EmptyElementTag("", "entry"), EndTag("", "feed")>>

ScenarioDocs(f) ==
    IF f = "atom" THEN {AtomScenario, AtomEmptyScenario}
    ELSE {OpmlScenario, OpmlNestedScenario}

\* Iter::new(input) (atom.rs:553-558): the top-level iterator
IterNew == [ty |-> "Iter", reader |-> TopReader, pos |-> 0, parent |-> 0, from |-> 0]

IterInit ==
    /\ fmt \in Formats
    /\ input \in Buffers(GeneratedDocs(fmt), {0, MaxFrag}) \cup Buffers(ScenarioDocs(fmt), {0})
    /\ iters = <<IterNew>>
    /\ yielded = <<<<>>>>
    /\ NoScan
    /\ elem = None
    /\ NoCall

\* next() calls of an iterator that returned None
NoneCount(i) == Cardinality({k \in 1..Len(yielded[i]) : yielded[i][k] = None})

\* next() calls, over all iterators, made after the iterator had returned None
RepeatedNones ==
    Cardinality({ik \in UNION {{<<i, k>> : k \in 2..Len(yielded[i])} : i \in 1..Len(iters)} :
                    /\ yielded[ik[1]][ik[2]] = None
                    /\ yielded[ik[1]][ik[2] - 1] = None})

\* AfterNext with the nested iterator advancing its parent's cursor as well
AfterNext_SharedCursor(its, i, r) ==
    LET moved == [its EXCEPT ![i].pos = r.pos]
        both == IF its[i].parent = 0 THEN moved
                ELSE [moved EXCEPT ![its[i].parent].pos =
                         its[i].reader.lo + r.pos - its[its[i].parent].reader.lo]
    IN IF r.item # None /\ r.item.kind = "iter"
         THEN Append(both, [ty |-> r.item.iter, reader |-> r.item.content, pos |-> 0,
                            parent |-> i, from |-> Len(yielded[i]) + 1])
         ELSE both

\* AfterNext with the nested iterator reading on to the end of its parent's input
AfterNext_WholeInput(its, i, r) ==
    LET moved == [its EXCEPT ![i].pos = r.pos] IN
    IF r.item # None /\ r.item.kind = "iter"
      THEN Append(moved, [ty |-> r.item.iter,
                          reader |-> Reader(r.item.content.lo, its[i].reader.hi),
                          pos |-> 0, parent |-> i, from |-> Len(yielded[i]) + 1])
      ELSE moved

\* the iterators after iterator i took result r of next(): self.pos is
\* written, and a container item is a new iterator of its own
\* (return_iter!: reader: Reader::from_str(content), pos: 0)
AfterNext(its, i, r) ==
    LET moved == [its EXCEPT ![i].pos = r.pos] IN
    IF r.item # None /\ r.item.kind = "iter"
      THEN Append(moved, [ty |-> r.item.iter, reader |-> r.item.content, pos |-> 0,
                          parent |-> i, from |-> Len(yielded[i]) + 1])
      ELSE moved

\* the caller calls next() on iterator i, which returns r, and keeps the item
Call(i, r) ==
    /\ iters' = AfterNext(iters, i, r)
    /\ yielded' = IF Len(iters') > Len(iters)
                    THEN Append([yielded EXCEPT ![i] = Append(@, r.item)], <<>>)
                    ELSE [yielded EXCEPT ![i] = Append(@, r.item)]
    /\ UNCHANGED <<input, fmt, tag, begin, pos, end, start_count, pc, content, elem, needle, result>>

\* atom.rs:210-220: next() returns an element built from a start tag
NextStartTag(i) ==
    LET r == next(fmt, iters[i]) IN
    /\ r.item # None
    /\ r.item.kind # "raw"
    /\ r.item.tag.ty = "StartTag"
    /\ Call(i, r)

\* atom.rs:221-225: next() returns an element built from an empty-element tag
NextEmptyElementTag(i) ==
    LET r == next(fmt, iters[i]) IN
    /\ r.item # None
    /\ r.item.kind # "raw"
    /\ r.item.tag.ty = "EmptyElementTag"
    /\ Call(i, r)

\* atom.rs:226-240: next() returns Raw
NextRaw(i) ==
    LET r == next(fmt, iters[i]) IN
    /\ r.item # None
    /\ r.item.kind = "raw"
    /\ Call(i, r)

\* atom.rs:243: next() returns None
NextNone(i) ==
    LET r == next(fmt, iters[i]) IN
    /\ NoneCount(i) = 0 \/ RepeatedNones < MaxNone
    /\ r.item = None
    /\ Call(i, r)

IterNext ==
    \E i \in 1..Len(iters) :
        NextStartTag(i) \/ NextEmptyElementTag(i) \/ NextRaw(i) \/ NextNone(i)

SpecIter == IterInit /\ [][IterNext]_vars

\* the tokens of flat documents: every token kind, and whitespace-only runs
RawAlphabet ==
    {StartTag("", "x"), EndTag("", "x"), EmptyElementTag("", "x"),
     Characters("x"), Characters(" "), Characters("\n\t "),
     Comment, Cdata, ProcessingInstruction, Declaration}

\* Iter::new(input) on a flat document
RawInit ==
    /\ fmt \in Formats
    /\ input \in Buffers(SeqsUpTo(RawAlphabet, MaxRaw), 0..MaxFrag)
    /\ iters = <<IterNew>>
    /\ yielded = <<<<>>>>
    /\ NoScan
    /\ elem = None
    /\ NoCall

SpecRaw == RawInit /\ [][IterNext]_vars

-----------------------------------------------------------------------------
(* Dispatch: one call of a level's `new` on a tag and its content slice *)

DispatchFormats == {"atom", "opml", "rss"}

\* the names of all levels of format f, as written in the source
VocabularyNames(f) ==
    UNION {{Vocabulary(f, it)[k].name : k \in 1..Len(Vocabulary(f, it))} : it \in IterTypes(f)}

\* local names of the tags dispatched: the names of the format, the same in
\* another letter case, and names of no level
DispatchNames(f) ==
    VocabularyNames(f)
    \cup {"Entry", "ID", "OUTLINE", "Feed", "FEED", "TITLE", "Opml", "MANAGINGEDITOR",
          "WindowTop", "x", "titles", "a"}

\* a start tag with one character of content, closed or not, or an empty-element tag
DispatchDocs(f) ==
    UNION {{<<StartTag(p, n), Characters("x"), EndTag(p, n)>>,
            <<StartTag(p, n), Characters("x")>>,
            <<EmptyElementTag(p, n)>>} : p \in {"", "p"}, n \in DispatchNames(f)}

\* the state in which next() of an iterator of some level has tokenized a
\* tag and computed its content, and is about to call $fn_name
DispatchInit ==
    /\ fmt \in DispatchFormats
    /\ input \in Buffers(DispatchDocs(fmt), {0})
    /\ \E it \in IterTypes(fmt) :
          iters = <<[ty |-> it, reader |-> TopReader, pos |-> 0, parent |-> 0, from |-> 0]>>
    /\ yielded = <<<<>>>>
    /\ tag = input.toks[1]
    /\ content = IF tag.ty = "EmptyElementTag" THEN EmptyContent
                 ELSE collect_bytes_until_end_tag(fmt, tag, TopReader, tag.hi).content
    /\ begin = 0 /\ pos = 0 /\ end = 0 /\ start_count = 0
    /\ pc = "dispatch"
    /\ elem = None
    /\ NoCall

Dispatched ==
    /\ elem' = new(fmt, iters[1].ty, tag, content)
    /\ pc' = "dispatched"
    /\ UNCHANGED <<input, fmt, tag, begin, pos, end, start_count, content, iters, yielded,
                 needle, result>>

\* return_content! / return_content_with_tag!: a leaf element
DispatchContent ==
    /\ pc = "dispatch"
    /\ new(fmt, iters[1].ty, tag, content).kind = "content"
    /\ new(fmt, iters[1].ty, tag, content).variant # "Unknown"
    /\ Dispatched

\* return_iter!: a container element
DispatchIter ==
    /\ pc = "dispatch"
    /\ new(fmt, iters[1].ty, tag, content).kind = "iter"
    /\ Dispatched

\* the fall-through to Unknown
DispatchUnknown ==
    /\ pc = "dispatch"
    /\ new(fmt, iters[1].ty, tag, content).variant = "Unknown"
    /\ Dispatched

DispatchNext == DispatchContent \/ DispatchIter \/ DispatchUnknown

SpecDispatch == DispatchInit /\ [][DispatchNext]_vars

-----------------------------------------------------------------------------
(* lib.rs: Tag::find_attribute, one loop turn per step *)

\* Option::Some
Some(v) == [ty |-> "Some", value |-> v]

\* an attribute as written in a tag: white space, the name, and ="value"
\* unless the attribute has no value
Attribute(n, v) ==
    [name |-> n, value |-> v,
     text |-> IF v = None THEN " " \o n ELSE " " \o n \o "=\"" \o v.value \o "\""]

\* the attributes of a list laid out from byte offset `at` of the attribute text
RECURSIVE AttributeLayout(_, _)
AttributeLayout(list, at) ==
    IF list = <<>> THEN <<>>
    ELSE LET a == Head(list) IN
         <<[name |-> a.name, value |-> a.value, text |-> a.text,
            lo |-> at, hi |-> at + Len(a.text)]>>
         \o AttributeLayout(Tail(list), at + Len(a.text))

\* the Attributes of a tag: the attributes and `tail` bytes of white space
\* after the last one
Attributes(list, tail) == [list |-> AttributeLayout(list, 0), tail |-> tail]

\* Tag::Start(tag) and Tag::EmptyElement(tag), with what tag.attributes() returns
Tag_Start(attrs) == [ty |-> "Start", attrs |-> attrs]

Tag_EmptyElement(attrs) == [ty |-> "EmptyElement", attrs |-> attrs]

\* Tag::attributes (lib.rs:210-215)
attributes(t) == t.attrs

\* Attributes::parse(pos): the attribute that starts at pos, None when there is none
parse(attrs, p) ==
    LET cand == {k \in 1..Len(attrs.list) : attrs.list[k].lo = p}
    IN IF cand = {} THEN None ELSE attrs.list[CHOOSE k \in cand : TRUE]

\* FindTurn that goes on past a matching attribute that has no value
FindTurn_SkipValueless(t, n, st) ==
    IF attributes(t) = None
      THEN [pos |-> st.pos, pc |-> "returned", ret |-> None]
    ELSE LET attribute == parse(attributes(t), st.pos) IN
         IF attribute # None
           THEN IF eq_ignore_ascii_case(attribute.name, n) /\ attribute.value # None
                  THEN [pos |-> st.pos, pc |-> "returned", ret |-> attribute.value]
                  ELSE [pos |-> st.pos + (attribute.hi - attribute.lo), pc |-> "find",
                        ret |-> None]
           ELSE [pos |-> st.pos, pc |-> "returned", ret |-> None]

\* FindTurn that compares the names byte for byte
FindTurn_CaseSensitive(t, n, st) ==
    IF attributes(t) = None
      THEN [pos |-> st.pos, pc |-> "returned", ret |-> None]
    ELSE LET attribute == parse(attributes(t), st.pos) IN
         IF attribute # None
           THEN IF attribute.name = n
                  THEN [pos |-> st.pos, pc |-> "returned", ret |-> attribute.value]
                  ELSE [pos |-> st.pos + (attribute.hi - attribute.lo), pc |-> "find",
                        ret |-> None]
           ELSE [pos |-> st.pos, pc |-> "returned", ret |-> None]

\* one turn of the loop of find_attribute (lib.rs:219-234) from the state
\* st = [pos, pc, ret]
FindTurn(t, n, st) ==
    IF attributes(t) = None
      THEN [pos |-> st.pos, pc |-> "returned", ret |-> None]
    ELSE LET attribute == parse(attributes(t), st.pos) IN
         IF attribute # None
           THEN IF eq_ignore_ascii_case(attribute.name, n)
                  THEN [pos |-> st.pos, pc |-> "returned", ret |-> attribute.value]
                  ELSE [pos |-> st.pos + (attribute.hi - attribute.lo), pc |-> "find",
                        ret |-> None]
           ELSE [pos |-> st.pos, pc |-> "returned", ret |-> None]

RECURSIVE FindLoop(_, _, _)
FindLoop(t, n, st) == IF st.pc # "find" THEN st ELSE FindLoop(t, n, FindTurn(t, n, st))

\* Tag::find_attribute(&self, needle)
find_attribute(t, n) == FindLoop(t, n, [pos |-> 0, pc |-> "find", ret |-> None]).ret

\* the attributes tags are written with
AttributeAlphabet ==
    {Attribute(n, v) : n \in {"href", "HREF", "rel"}, v \in {None, Some("1"), Some("2")}}

\* the tags find_attribute is called on: without attributes, or with up to
\* MaxAttrs of them
FindTags ==
    LET lists == SeqsUpTo(AttributeAlphabet, MaxAttrs)
        some == {Attributes(l, tl) : l \in lists \ {<<>>}, tl \in {0, 1}}
    IN {Tag_Start(a) : a \in some \cup {None}} \cup {Tag_EmptyElement(a) : a \in some \cup {None}}

FindInit ==
    /\ tag \in FindTags
    /\ needle \in {"href", "Rel", "type"}
    /\ pos = 0
    /\ pc = "find"
    /\ result = None
    /\ input = [toks |-> <<>>, frag |-> 0]
    /\ fmt = "atom"
    /\ begin = 0 /\ end = 0 /\ start_count = 0 /\ content = Reader(0, 0)
    /\ NoIteration
    /\ elem = None

FindState == [pos |-> pos, pc |-> pc, ret |-> result]

\* the loop turn taken from the current state of find_attribute
FindStep ==
    LET st == FindTurn(tag, needle, FindState) IN
    /\ pos' = st.pos
    /\ pc' = st.pc
    /\ result' = st.ret
    /\ UNCHANGED <<input, fmt, tag, begin, end, start_count, content, iters, yielded,
                   elem, needle>>

\* lib.rs:232-234: the tag has no attribute list
FindNoAttributes == pc = "find" /\ attributes(tag) = None /\ FindStep

\* lib.rs:224-226: the attribute at pos has the name asked for
FindMatch ==
    /\ pc = "find"
    /\ attributes(tag) # None
    /\ parse(attributes(tag), pos) # None
    /\ eq_ignore_ascii_case(parse(attributes(tag), pos).name, needle)
    /\ FindStep

\* lib.rs:227: the attribute at pos has another name
FindSkip ==
    /\ pc = "find"
    /\ attributes(tag) # None
    /\ parse(attributes(tag), pos) # None
    /\ ~eq_ignore_ascii_case(parse(attributes(tag), pos).name, needle)
    /\ FindStep

\* lib.rs:228-230: no attribute starts at pos
FindEnd ==
    /\ pc = "find"
    /\ attributes(tag) # None
    /\ parse(attributes(tag), pos) = None
    /\ FindStep

FindNext == FindNoAttributes \/ FindMatch \/ FindSkip \/ FindEnd

SpecFind == FindInit /\ [][FindNext]_vars

-----------------------------------------------------------------------------
(* lib.rs: detect_type, and xml.rs: find_ty, one token per step *)

\* the variants of enum Ty (lib.rs:171-178)
Ty == {"Atom", "Json", "Rss", "Unknown", "XmlOrHtml"}

\* xml.rs:8-17 with a further arm for the local name opml
map_tag_name_to_ty_Opml(t) ==
    IF eq_ignore_ascii_case(t.local, "rss") THEN "Rss"
    ELSE IF eq_ignore_ascii_case(t.local, "feed") THEN "Atom"
    ELSE IF eq_ignore_ascii_case(t.local, "opml") THEN "Opml"
    ELSE "XmlOrHtml"

\* xml.rs:8-17 with the qualified name in place of the local name
map_tag_name_to_ty_Qualified(t) ==
    IF eq_ignore_ascii_case(QName(t.prefix, t.local), "rss") THEN "Rss"
    ELSE IF eq_ignore_ascii_case(QName(t.prefix, t.local), "feed") THEN "Atom"
    ELSE "XmlOrHtml"

\* xml.rs:8-17
map_tag_name_to_ty(t) ==
    IF eq_ignore_ascii_case(t.local, "rss") THEN "Rss"
    ELSE IF eq_ignore_ascii_case(t.local, "feed") THEN "Atom"
    ELSE "XmlOrHtml"

\* chars().all(|c| c.is_ascii_whitespace()) (xml.rs:29, xml.rs:36-40)
all_ascii_whitespace(s) ==
    \A k \in 1..Len(chars(s)) : is_ascii_whitespace(chars(s)[k])

\* the closure given to find_map (xml.rs:22-50) on one token
find_map_closure(t) ==
    CASE t.ty = "StartTag" -> Some(map_tag_name_to_ty(t))
      [] t.ty = "EmptyElementTag" -> Some(map_tag_name_to_ty(t))
      [] t.ty = "EndTag" -> Some("XmlOrHtml")
      [] t.ty = "Characters" ->
            IF all_ascii_whitespace(t.text) THEN None ELSE Some("XmlOrHtml")
      [] t.ty = "Cdata" ->
            IF all_ascii_whitespace(cdata_content(t)) THEN None ELSE Some("XmlOrHtml")
      [] t.ty \in {"ProcessingInstruction", "Declaration", "Comment"} -> None

\* one token of find_ty's find_map from the state st = [pos, pc, ret];
\* unwrap_or(Ty::Unknown) when the tokens end (xml.rs:51)
FindTyTurn(st) ==
    LET r == tokenize(TopReader, st.pos) IN
    IF r.tok = None
      THEN [pos |-> st.pos, pc |-> "returned", ret |-> "Unknown"]
    ELSE IF find_map_closure(r.tok) # None
      THEN [pos |-> r.pos, pc |-> "returned", ret |-> find_map_closure(r.tok).value]
    ELSE [pos |-> r.pos, pc |-> "find_ty", ret |-> st.ret]

RECURSIVE FindTyLoop(_)
FindTyLoop(st) == IF st.pc # "find_ty" THEN st ELSE FindTyLoop(FindTyTurn(st))

\* xml::find_ty(input)
find_ty == FindTyLoop([pos |-> 0, pc |-> "find_ty", ret |-> None]).ret

\* input.chars().filter(|c| !c.is_whitespace()).next() (lib.rs:183-185,191)
\* from token k of the buffer on
RECURSIVE FirstNonWhitespace(_)
FirstNonWhitespace(k) ==
    IF k > NToks
      THEN IF input.frag > 0 THEN Some("<") ELSE None
    ELSE IF input.toks[k].ty = "Characters"
      THEN LET cs == chars(input.toks[k].text)
               seen == {j \in 1..Len(cs) : ~is_whitespace(cs[j])}
           IN IF seen = {} THEN FirstNonWhitespace(k + 1)
              ELSE Some(cs[CHOOSE j \in seen : \A i \in seen : j <= i])
    ELSE Some("<")

\* the match of lib.rs:186-190 with '[' left out of the first arm
MatchChar_BraceOnly(c) ==
    IF c = "{" THEN "Json"
    ELSE IF c = "<" THEN "find_ty"
    ELSE "Unknown"

\* the match of lib.rs:186-190 on the first character: the Ty it gives, or
\* "find_ty" where it calls xml::find_ty
MatchChar(c) ==
    IF c \in {"{", "["} THEN "Json"
    ELSE IF c = "<" THEN "find_ty"
    ELSE "Unknown"

\* detect_type(input) (lib.rs:182-193)
detect_type ==
    LET c == FirstNonWhitespace(1) IN
    IF c = None THEN "Unknown"
    ELSE IF MatchChar(c.value) = "find_ty" THEN find_ty
    ELSE MatchChar(c.value)

\* the tokens of the documents given to detect_type
DetectAlphabet ==
    {StartTag("", "rss"), StartTag("p", "RSS"), StartTag("", "feed"),
     EmptyElementTag("", "Feed"), StartTag("", "opml"), EndTag("", "rss"),
     Characters(" "), Characters(NBSP), Characters("x"), Characters("{"),
     Characters("["), Characters(" {"),
     Comment, Cdata, CdataBlank, ProcessingInstruction, Declaration}

\* token sequences a token source can return: no two character runs in a row
DetectDocs ==
    {d \in SeqsUpTo(DetectAlphabet, MaxDetect) :
        \A k \in 1..(Len(d) - 1) : ~(d[k].ty = "Characters" /\ d[k + 1].ty = "Characters")}

DetectInit ==
    /\ input \in Buffers(DetectDocs, 0..MaxFrag)
    /\ pc = "detect"
    /\ pos = 0
    /\ result = None
    /\ needle = ""
    /\ fmt = "atom"
    /\ tag = None /\ begin = 0 /\ end = 0 /\ start_count = 0 /\ content = Reader(0, 0)
    /\ NoIteration
    /\ elem = None

Returned(ty) ==
    /\ result' = ty
    /\ pc' = "returned"
    /\ UNCHANGED <<input, fmt, tag, begin, pos, end, start_count, content, iters, yielded,
                   elem, needle>>

\* lib.rs:187: the first character that is not white space is { or [
DetectJson ==
    /\ pc = "detect"
    /\ FirstNonWhitespace(1) # None
    /\ MatchChar(FirstNonWhitespace(1).value) = "Json"
    /\ Returned("Json")

\* lib.rs:189 and lib.rs:192: another first character, or none at all
DetectUnknown ==
    /\ pc = "detect"
    /\ \/ FirstNonWhitespace(1) = None
       \/ /\ FirstNonWhitespace(1) # None
          /\ MatchChar(FirstNonWhitespace(1).value) = "Unknown"
    /\ Returned("Unknown")

\* lib.rs:188: the first character that is not white space is <; find_ty
\* starts over from the head of the input
DetectXml ==
    /\ pc = "detect"
    /\ FirstNonWhitespace(1) # None
    /\ MatchChar(FirstNonWhitespace(1).value) = "find_ty"
    /\ pc' = "find_ty"
    /\ pos' = 0
    /\ UNCHANGED <<input, fmt, tag, begin, end, start_count, content, iters, yielded,
                   elem, needle, result>>

FindTyState == [pos |-> pos, pc |-> pc, ret |-> result]

FindTyStep ==
    LET st == FindTyTurn(FindTyState) IN
    /\ pos' = st.pos
    /\ pc' = st.pc
    /\ result' = st.ret
    /\ UNCHANGED <<input, fmt, tag, begin, end, start_count, content, iters, yielded,
                   elem, needle>>

\* xml.rs:23-27,33,45: the token decides
FindTyDecisive ==
    /\ pc = "find_ty"
    /\ Peek # None
    /\ find_map_closure(Peek) # None
    /\ FindTyStep

\* xml.rs:30,42,47-49: the token is passed over
FindTySkip ==
    /\ pc = "find_ty"
    /\ Peek # None
    /\ find_map_closure(Peek) = None
    /\ FindTyStep

\* xml.rs:51: the tokens end
FindTyEnd == pc = "find_ty" /\ Peek = None /\ FindTyStep

DetectNext ==
    DetectJson \/ DetectUnknown \/ DetectXml \/ FindTyDecisive \/ FindTySkip \/ FindTyEnd

SpecDetect == DetectInit /\ [][DetectNext]_vars

-----------------------------------------------------------------------------
(* Repeated runs: a caller runs detect_type on a buffer, before, between or
   after the next() calls it makes on two top-level iterators of one format
   constructed over the same buffer, and on the iterators they hand out *)

MaxRerun == 2

RerunFormats == {"atom", "rss", "opml"}

\* the root element of a document of format f and the container below it
RerunRoot(f) == IF f = "atom" THEN "feed" ELSE IF f = "rss" THEN "rss" ELSE "opml"

RerunContainer(f) == IF f = "atom" THEN "entry" ELSE IF f = "rss" THEN "channel" ELSE "body"

RerunAlphabet(f) ==
    {StartTag("", RerunContainer(f)), EndTag("", RerunContainer(f)),
     EmptyElementTag("", "x"), Characters("x"), Characters(" ")}

\* <rss><channel><x></channel>x</x>, and the like for Atom and OPML: the end
\* tag of x lies outside the container that x is opened in
RerunScenario(f) ==
    <<StartTag("", RerunRoot(f)), StartTag("", RerunContainer(f)), StartTag("", "x"),
      EndTag("", RerunContainer(f)), Characters("x"), EndTag("", "x")>>

\* a token run alone and under the root start tag of the format
RerunDocs(f) ==
    LET runs == SeqsUpTo(RerunAlphabet(f), MaxRerun) IN
    runs \cup {<<StartTag("", RerunRoot(f))>> \o b : b \in runs} \cup {RerunScenario(f)}

\* Iter::new(input) twice over one buffer (atom.rs:553-558, rss.rs:570-581);
\* detect_type has not run yet
RerunInit ==
    /\ fmt \in RerunFormats
    /\ input \in Buffers(RerunDocs(fmt), {0}) \cup Buffers({RerunScenario(fmt)}, {MaxFrag})
    /\ iters = <<IterNew, IterNew>>
    /\ yielded = <<<<>>, <<>>>>
    /\ pc = "fresh"
    /\ begin = 0 /\ pos = 0 /\ end = 0 /\ start_count = 0
    /\ tag = None /\ content = Reader(0, 0)
    /\ elem = None
    /\ NoCall

\* AfterDetect with detect_type and the iterators reading through one cursor
AfterDetect_Rewind(its) == [i \in DOMAIN its |-> [its[i] EXCEPT !.pos = 0]]

\* the iterators after a run of detect_type: it borrows the input as &str,
\* reads it through a reader of its own and writes nothing (lib.rs:182-193)
AfterDetect(its) == its

\* the caller runs detect_type(input)
RerunDetect ==
    /\ pc \in {"fresh", "detected"}
    /\ result' = detect_type
    /\ pc' = IF pc = "fresh" THEN "detected" ELSE "detected again"
    /\ iters' = AfterDetect(iters)
    /\ UNCHANGED <<input, fmt, tag, begin, pos, end, start_count, content, yielded,
                   elem, needle>>

\* the top-level iterator (1 or 2) that iterator i descends from
RECURSIVE Family(_)
Family(i) == IF iters[i].parent = 0 THEN i ELSE Family(iters[i].parent)

\* iterators a and b were handed out by the same calls of the two top-level
\* iterators and their descendants
RECURSIVE Twin(_, _)
Twin(a, b) ==
    IF iters[a].parent = 0 \/ iters[b].parent = 0
      THEN iters[a].parent = 0 /\ iters[b].parent = 0
    ELSE iters[a].from = iters[b].from /\ Twin(iters[a].parent, iters[b].parent)

\* the second parse has repeated every call of the first
InStep ==
    /\ Cardinality({i \in 1..Len(iters) : Family(i) = 1})
         = Cardinality({i \in 1..Len(iters) : Family(i) = 2})
    /\ \A a, b \in 1..Len(iters) :
          (Family(a) = 1 /\ Family(b) = 2 /\ Twin(a, b)) => Len(yielded[a]) = Len(yielded[b])

\* the calls the caller may make: a call of the first parse when the second
\* has caught up, or the repetition by the second parse of the call that the
\* first parse made last
MayCall(i) ==
    \/ Family(i) = 1 /\ InStep
    \/ /\ Family(i) = 2
       /\ \E a \in 1..Len(iters) :
             Family(a) = 1 /\ Twin(a, i) /\ Len(yielded[a]) = Len(yielded[i]) + 1

\* a next() call on one of the two top-level iterators or on an iterator
\* they handed out
RerunCall ==
    \E i \in 1..Len(iters) :
        /\ MayCall(i)
        /\ NextStartTag(i) \/ NextEmptyElementTag(i) \/ NextRaw(i) \/ NextNone(i)

RerunNext == RerunCall \/ RerunDetect

SpecRerun == RerunInit /\ [][RerunNext]_vars

-----------------------------------------------------------------------------
(* html.rs: the scanner for feed links, first one tag at a time with one
   attribute per step, then over a document with one next() call per step *)

MaxLinkAttrs == 3

MaxHtml == 3

\* Elem::FeedUrl and Elem::BaseUrl (html.rs:12-15)
FeedUrl(h) == [ty |-> "FeedUrl", url |-> h]

BaseUrl(h) == [ty |-> "BaseUrl", url |-> h]

\* the text of the attributes from the k-th one on
RECURSIVE AttributesText(_, _)
AttributesText(attrs, k) ==
    IF attrs = None THEN ""
    ELSE IF k > Len(attrs.list) THEN ""
    ELSE attrs.list[k].text \o AttributesText(attrs, k + 1)

\* a start or empty-element tag with what tag.attributes() returns
HtmlTag(ty, p, l, attrs) ==
    [ty |-> ty, prefix |-> p, local |-> l, attrs |-> attrs,
     text |-> "<" \o QName(p, l) \o AttributesText(attrs, 1)
                  \o (IF ty = "EmptyElementTag" THEN "/>" ELSE ">")]

\* a token that is no such tag
HtmlOther(t) ==
    [ty |-> t.ty, prefix |-> t.prefix, local |-> t.local, attrs |-> None, text |-> t.text]

\* html.rs:18-20; name.as_str() is the qualified name
is_link_tag_name(t) == eq_ignore_ascii_case(QName(t.prefix, t.local), "link")

\* html.rs:66-68
is_base_tag_name(t) == eq_ignore_ascii_case(QName(t.prefix, t.local), "base")

\* html.rs:23-25: href, rel and ty before the first attribute
NoLocals == [href |-> None, rel |-> None, ty |-> None]

\* the body of the loop over the attributes (html.rs:28-46) on one
\* attribute, from the locals st = [href, rel, ty]
LinkTurn(attr, st) ==
    [href |-> IF eq_ignore_ascii_case(attr.name, "href") /\ attr.value # None
                THEN attr.value ELSE st.href,
     rel |-> IF eq_ignore_ascii_case(attr.name, "rel") /\ attr.value # None
               THEN attr.value ELSE st.rel,
     ty |-> IF eq_ignore_ascii_case(attr.name, "type") /\ attr.value # None
              THEN attr.value ELSE st.ty]

RECURSIVE LinkLoop(_, _, _)
LinkLoop(list, k, st) ==
    IF k > Len(list) THEN st ELSE LinkLoop(list, k + 1, LinkTurn(list[k], st))

\* html.rs:51-61
is_feed_link(st) ==
    \/ /\ st.rel # None
       /\ \/ eq_ignore_ascii_case(trim(st.rel.value), "alternate")
          \/ eq_ignore_ascii_case(trim(st.rel.value), "feed")
    \/ /\ st.ty # None
       /\ \/ eq_ignore_ascii_case(trim(st.ty.value), "application/rss+xml")
          \/ eq_ignore_ascii_case(trim(st.ty.value), "application/atom+xml")

\* LinkVerdict that asks for a qualifying rel and a qualifying type
LinkVerdict_RelAndType(st) ==
    IF st.href = None THEN None
    ELSE IF /\ st.rel # None
            /\ \/ eq_ignore_ascii_case(trim(st.rel.value), "alternate")
               \/ eq_ignore_ascii_case(trim(st.rel.value), "feed")
            /\ st.ty # None
            /\ \/ eq_ignore_ascii_case(trim(st.ty.value), "application/rss+xml")
               \/ eq_ignore_ascii_case(trim(st.ty.value), "application/atom+xml")
      THEN st.href
    ELSE None

\* html.rs:49-62: `href?` and is_feed_link.then_some(href)
LinkVerdict(st) ==
    IF st.href = None THEN None
    ELSE IF is_feed_link(st) THEN st.href
    ELSE None

\* eval_link_tag_attributes(attributes) (html.rs:22-63)
eval_link_tag_attributes(attrs) == LinkVerdict(LinkLoop(attrs.list, 1, NoLocals))

\* eval_base_tag_attributes(attributes) (html.rs:70-77): find_map goes on
\* past an href attribute that has no value
eval_base_tag_attributes(attrs) ==
    LET hits == {k \in 1..Len(attrs.list) :
                    /\ eq_ignore_ascii_case(attrs.list[k].name, "href")
                    /\ attrs.list[k].value # None}
    IN IF hits = {} THEN None
       ELSE attrs.list[CHOOSE k \in hits : \A j \in hits : k <= j].value

\* the arms of eval for a start tag and for an empty-element tag
\* (html.rs:108-135): Some(elem) when eval returns, None when it goes on
eval_tag(t) ==
    LET feed_url == IF is_link_tag_name(t) /\ t.attrs # None
                      THEN eval_link_tag_attributes(t.attrs) ELSE None
        base_url == IF is_base_tag_name(t) /\ t.attrs # None
                      THEN eval_base_tag_attributes(t.attrs) ELSE None
    IN IF feed_url # None THEN Some(FeedUrl(feed_url.value))
       ELSE IF base_url # None THEN Some(BaseUrl(base_url.value))
       ELSE None

\* eval that returns None at the first tag it has nothing to return for
RECURSIVE eval_StopsAtTag(_)
eval_StopsAtTag(p) ==
    LET r == tokenize(TopReader, p)
    IN IF r.tok = None THEN [item |-> None, pos |-> p]
       ELSE IF r.tok.ty \in {"StartTag", "EmptyElementTag"}
         THEN IF eval_tag(r.tok) # None
                THEN [item |-> eval_tag(r.tok).value, pos |-> r.pos]
                ELSE [item |-> None, pos |-> r.pos]
       ELSE eval_StopsAtTag(r.pos)

\* eval(iter) (html.rs:103-146) with the token iterator at offset p: the
\* item returned and the offset the iterator is left at
RECURSIVE eval(_)
eval(p) ==
    LET r == tokenize(TopReader, p)
    IN IF r.tok = None THEN [item |-> None, pos |-> p]
       ELSE IF r.tok.ty \in {"StartTag", "EmptyElementTag"} /\ eval_tag(r.tok) # None
         THEN [item |-> eval_tag(r.tok).value, pos |-> r.pos]
       ELSE eval(r.pos)

\* the attributes the tags are written with
LinkAttributeAlphabet ==
    {Attribute("href", Some("/a")), Attribute("HREF", Some("/b")), Attribute("href", None),
     Attribute("rel", Some("alternate\n")), Attribute("rel", Some(" Feed ")),
     Attribute("rel", Some("stylesheet")),
     Attribute("type", Some("application/rss+xml")),
     Attribute("type", Some("Application/Atom+XML"))}

\* the tags evaluated: named link, base or otherwise, without attributes or
\* with up to MaxLinkAttrs of them
LinkTags ==
    LET lists == SeqsUpTo(LinkAttributeAlphabet, MaxLinkAttrs)
        attrs == {Attributes(l, 0) : l \in lists \ {<<>>}} \cup {None}
    IN {HtmlTag("StartTag", "", "link", a) : a \in attrs}
       \cup {HtmlTag("EmptyElementTag", "", "LINK", a) : a \in attrs}
       \cup {HtmlTag("StartTag", "atom", "link", a) : a \in attrs}
       \cup {HtmlTag("EmptyElementTag", "", "base", a) : a \in attrs}
       \cup {HtmlTag("StartTag", "", "a", a) : a \in attrs}

\* eval has read a start or empty-element tag
LinkInit ==
    /\ tag \in LinkTags
    /\ pc = "eval"
    /\ pos = 0
    /\ elem = NoLocals
    /\ result = None
    /\ needle = ""
    /\ input = [toks |-> <<>>, frag |-> 0]
    /\ fmt = "html"
    /\ begin = 0 /\ end = 0 /\ start_count = 0 /\ content = Reader(0, 0)
    /\ NoIteration

\* html.rs:110-111: the tag is named link and has attributes
EvalLink ==
    /\ pc = "eval"
    /\ is_link_tag_name(tag) /\ tag.attrs # None
    /\ pc' = "link"
    /\ pos' = 1
    /\ UNCHANGED <<input, fmt, tag, begin, end, start_count, content, iters, yielded,
                   elem, needle, result>>

\* html.rs:27-47: one attribute of the link tag
LinkAttr ==
    /\ pc = "link"
    /\ pos <= Len(tag.attrs.list)
    /\ elem' = LinkTurn(tag.attrs.list[pos], elem)
    /\ pos' = pos + 1
    /\ UNCHANGED <<input, fmt, tag, begin, end, start_count, pc, content, iters, yielded,
                   needle, result>>

\* html.rs:62,112: Some(href), returned as FeedUrl
LinkFeedUrl ==
    /\ pc = "link"
    /\ pos > Len(tag.attrs.list)
    /\ LinkVerdict(elem) # None
    /\ result' = Some(FeedUrl(LinkVerdict(elem).value))
    /\ pc' = "returned"
    /\ UNCHANGED <<input, fmt, tag, begin, pos, end, start_count, content, iters, yielded,
                   elem, needle>>

\* html.rs:49,62: None; eval goes on to the test for base
LinkNone ==
    /\ pc = "link"
    /\ pos > Len(tag.attrs.list)
    /\ LinkVerdict(elem) = None
    /\ pc' = "base"
    /\ UNCHANGED <<input, fmt, tag, begin, pos, end, start_count, content, iters, yielded,
                   elem, needle, result>>

\* html.rs:110-111: the tag is not named link or has no attributes
EvalNotLink ==
    /\ pc = "eval"
    /\ ~(is_link_tag_name(tag) /\ tag.attrs # None)
    /\ pc' = "base"
    /\ UNCHANGED <<input, fmt, tag, begin, pos, end, start_count, content, iters, yielded,
                   elem, needle, result>>

\* html.rs:116-119: a base tag with an href value, returned as BaseUrl
EvalBaseUrl ==
    /\ pc = "base"
    /\ is_base_tag_name(tag) /\ tag.attrs # None
    /\ eval_base_tag_attributes(tag.attrs) # None
    /\ result' = Some(BaseUrl(eval_base_tag_attributes(tag.attrs).value))
    /\ pc' = "returned"
    /\ UNCHANGED <<input, fmt, tag, begin, pos, end, start_count, content, iters, yielded,
                   elem, needle>>

\* html.rs:120-121: nothing is returned for the tag and the loop goes on
EvalSkip ==
    /\ pc = "base"
    /\ ~(/\ is_base_tag_name(tag) /\ tag.attrs # None
         /\ eval_base_tag_attributes(tag.attrs) # None)
    /\ pc' = "skipped"
    /\ UNCHANGED <<input, fmt, tag, begin, pos, end, start_count, content, iters, yielded,
                   elem, needle, result>>

LinkNext ==
    EvalLink \/ LinkAttr \/ LinkFeedUrl \/ LinkNone \/ EvalNotLink \/ EvalBaseUrl \/ EvalSkip

SpecLink == LinkInit /\ [][LinkNext]_vars

\* <link rel="alternate" type="application/rss+xml" href="/a">
FeedLink ==
    HtmlTag("StartTag", "", "link",
            Attributes(<<Attribute("rel", Some("alternate")),
                         Attribute("type", Some("application/rss+xml")),
                         Attribute("href", Some("/a"))>>, 0))

\* <LINK href="/b" type="Application/Atom+XML"/>
AtomLink ==
    HtmlTag("EmptyElementTag", "", "LINK",
            Attributes(<<Attribute("href", Some("/b")),
                         Attribute("type", Some("Application/Atom+XML"))>>, 0))

\* <link rel="stylesheet" href="/a">
StyleLink ==
    HtmlTag("StartTag", "", "link",
            Attributes(<<Attribute("rel", Some("stylesheet")),
                         Attribute("href", Some("/a"))>>, 0))

\* <link rel="alternate">
NoHrefLink ==
    HtmlTag("StartTag", "", "link", Attributes(<<Attribute("rel", Some("alternate"))>>, 0))

\* <base href="/b"/>
BaseTag ==
    HtmlTag("EmptyElementTag", "", "base", Attributes(<<Attribute("href", Some("/b"))>>, 0))

\* the tokens of the documents scanned
HtmlAlphabet ==
    {FeedLink, AtomLink, StyleLink, NoHrefLink, BaseTag,
     HtmlTag("StartTag", "", "a", None),
     HtmlOther(EndTag("", "link")), HtmlOther(Characters("x")), HtmlOther(Comment)}

\* the tokens laid out from byte offset `at`
RECURSIVE HtmlLayout(_, _)
HtmlLayout(toks, at) ==
    IF toks = <<>> THEN <<>>
    ELSE LET t == Head(toks) IN
         <<[ty |-> t.ty, prefix |-> t.prefix, local |-> t.local, attrs |-> t.attrs,
            text |-> t.text, lo |-> at, hi |-> at + Len(t.text)]>>
         \o HtmlLayout(Tail(toks), at + Len(t.text))

\* Iter::new(input) (html.rs:87-91): Reader::new(input).into_iter()
HtmlInit ==
    /\ \E d \in SeqsUpTo(HtmlAlphabet, MaxHtml) : \E g \in {0, MaxFrag} :
          input = [toks |-> HtmlLayout(d, 0), frag |-> g]
    /\ pos = 0
    /\ yielded = <<<<>>>>
    /\ iters = <<>>
    /\ pc = "iter"
    /\ fmt = "html"
    /\ tag = None /\ begin = 0 /\ end = 0 /\ start_count = 0 /\ content = Reader(0, 0)
    /\ elem = None
    /\ NoCall

\* next() (html.rs:97-99) returns eval's item; the caller keeps it
HtmlCall(r) ==
    /\ pos' = r.pos
    /\ yielded' = <<Append(yielded[1], r.item)>>
    /\ UNCHANGED <<input, fmt, tag, begin, end, start_count, pc, content, iters,
                   elem, needle, result>>

\* html.rs:112,126
HtmlFeedUrl == eval(pos).item # None /\ eval(pos).item.ty = "FeedUrl" /\ HtmlCall(eval(pos))

\* html.rs:118,132
HtmlBaseUrl == eval(pos).item # None /\ eval(pos).item.ty = "BaseUrl" /\ HtmlCall(eval(pos))

\* html.rs:105: the tokens have ended
HtmlNone ==
    /\ eval(pos).item = None
    /\ Cardinality({k \in 1..Len(yielded[1]) : yielded[1][k] = None}) <= MaxNone
    /\ HtmlCall(eval(pos))

HtmlNext == HtmlFeedUrl \/ HtmlBaseUrl \/ HtmlNone

SpecHtml == HtmlInit /\ [][HtmlNext]_vars

-----------------------------------------------------------------------------
(* Reference notions the properties are stated with *)

\* tag t bears the name of the opening tag, as format f compares names
Named(f, t, open) ==
    IF f = "atom"
      THEN /\ to_ascii_lowercase(t.prefix) = to_ascii_lowercase(open.prefix)
           /\ to_ascii_lowercase(t.local) = to_ascii_lowercase(open.local)
      ELSE to_ascii_lowercase(t.local) = to_ascii_lowercase(open.local)

\* nesting depth of the element opened by token s, after token j
RefDepth(f, s, j) ==
    1 + Cardinality({k \in (s + 1)..j : input.toks[k].ty = "StartTag"
                                        /\ Named(f, input.toks[k], input.toks[s])})
      - Cardinality({k \in (s + 1)..j : input.toks[k].ty = "EndTag"
                                        /\ Named(f, input.toks[k], input.toks[s])})

\* the end tags up to token b that bring the depth of the element opened by s to 0
RefClosers(f, s, b) ==
    {j \in (s + 1)..b : /\ input.toks[j].ty = "EndTag"
                        /\ Named(f, input.toks[j], input.toks[s])
                        /\ RefDepth(f, s, j) = 0}

\* index of the end tag matching start tag s among tokens s+1..b, 0 if there is none
RefMatch(f, s, b) ==
    IF RefClosers(f, s, b) = {} THEN 0
    ELSE CHOOSE j \in RefClosers(f, s, b) : \A k \in RefClosers(f, s, b) : j <= k

\* a whitespace-only character run
IsBlank(t) == t.ty = "Characters" /\ t.text \in WhitespaceRuns

\* index in the buffer of the token t
IdxOf(t) == CHOOSE i \in 1..NToks : input.toks[i] = t

\* first and last index of the tokens that lie inside the byte range rd
InRange(rd) == {i \in 1..NToks : input.toks[i].lo >= rd.lo /\ input.toks[i].hi <= rd.hi}

WinFirst(rd) ==
    IF InRange(rd) = {} THEN 1 ELSE CHOOSE i \in InRange(rd) : \A j \in InRange(rd) : i <= j

WinLast(rd) ==
    IF InRange(rd) = {} THEN 0 ELSE CHOOSE i \in InRange(rd) : \A j \in InRange(rd) : i >= j

\* the tokens an iterator over tokens a..b is to yield, in order: blank runs
\* are passed over and an element reaches to its matching end tag
RECURSIVE RefYield(_, _, _)
RefYield(f, a, b) ==
    IF a > b THEN <<>>
    ELSE IF IsBlank(input.toks[a]) THEN RefYield(f, a + 1, b)
    ELSE IF input.toks[a].ty = "StartTag"
      THEN IF RefMatch(f, a, b) = 0 THEN <<a>>
           ELSE <<a>> \o RefYield(f, RefMatch(f, a, b) + 1, b)
    ELSE <<a>> \o RefYield(f, a + 1, b)

\* the first token after token m, up to token b, that is not a blank run; 0 if none
NextVisible(m, b) ==
    LET rest == {j \in (m + 1)..b : ~IsBlank(input.toks[j])} IN
    IF rest = {} THEN 0 ELSE CHOOSE j \in rest : \A k \in rest : j <= k

\* item e was built by the dispatcher from a start tag
FromStartTag(e) == e # None /\ e.kind # "raw" /\ e.tag.ty = "StartTag"

\* the nested iterators handed out with the k-th item of iterator i
Children(i, k) == {c \in 1..Len(iters) : iters[c].parent = i /\ iters[c].from = k}

\* the text of the tokens a..b of the buffer
RECURSIVE TokText(_, _)
TokText(a, b) == IF a > b THEN "" ELSE input.toks[a].text \o TokText(a + 1, b)

\* the text of the byte range rd of the buffer
SliceText(rd) == TokText(WinFirst(rd), WinLast(rd))

\* the text of all tokens a..b that are not blank runs
RECURSIVE VisibleText(_, _)
VisibleText(a, b) ==
    IF a > b THEN ""
    ELSE IF IsBlank(input.toks[a]) THEN VisibleText(a + 1, b)
    ELSE input.toks[a].text \o VisibleText(a + 1, b)

\* what the items k.. of iterator i surface, nested iterators included: an
\* element's tag, its content slice or what its nested iterator surfaces, a
\* Raw token
RECURSIVE Surfaced(_, _)
Surfaced(i, k) ==
    IF k > Len(yielded[i]) THEN ""
    ELSE LET e == yielded[i][k] IN
         IF e = None THEN Surfaced(i, k + 1)
         ELSE IF e.kind = "raw" THEN e.tag.text \o Surfaced(i, k + 1)
         ELSE IF e.kind = "content"
           THEN e.tag.text \o SliceText(e.content) \o Surfaced(i, k + 1)
         ELSE e.tag.text \o Surfaced(CHOOSE c \in Children(i, k) : TRUE, 1)
              \o Surfaced(i, k + 1)

\* the first token at or after the cursor of iterator it, inside its reader,
\* that is not a blank run; 0 if there is none
RefPending(it) ==
    LET rest == {j \in InRange(it.reader) : /\ input.toks[j].lo >= it.reader.lo + it.pos
                                            /\ ~IsBlank(input.toks[j])}
    IN IF rest = {} THEN 0 ELSE CHOOSE j \in rest : \A k \in rest : j <= k

\* the byte range of the buffer that item e covers: its tag, and for an
\* element built from a start tag its content slice as well
Span(e) ==
    [lo |-> e.tag.lo, hi |-> IF FromStartTag(e) THEN e.content.hi ELSE e.tag.hi]

\* every iterator handed out has been driven to None
AllDone ==
    \A i \in 1..Len(iters) : yielded[i] # <<>> /\ yielded[i][Len(yielded[i])] = None

\* the iterator type nested under a tag named like t at the level of
\* iterator type it, "" when the tag is a leaf or unknown there
RefNested(f, it, t) ==
    LET hits == {k \in 1..Len(Vocabulary(f, it)) :
                    /\ to_ascii_lowercase(Vocabulary(f, it)[k].name) = to_ascii_lowercase(t.local)
                    /\ Vocabulary(f, it)[k].kind = "iter"}
    IN IF hits = {} THEN "" ELSE Vocabulary(f, it)[CHOOSE k \in hits : TRUE].iter

\* the text that iterating tokens a..b at the level of iterator type it is
\* to surface: every token but the blank runs met at a container level and
\* the end tag that closes each element
RECURSIVE RefSurfaced(_, _, _, _)
RefSurfaced(f, it, a, b) ==
    IF a > b THEN ""
    ELSE LET t == input.toks[a]
             m == RefMatch(f, a, b)
             last == IF m = 0 THEN b ELSE m - 1
             after == IF m = 0 THEN b + 1 ELSE m + 1
         IN IF IsBlank(t) THEN RefSurfaced(f, it, a + 1, b)
            ELSE IF t.ty = "StartTag"
              THEN t.text
                   \o (IF RefNested(f, it, t) = "" THEN TokText(a + 1, last)
                       ELSE RefSurfaced(f, RefNested(f, it, t), a + 1, last))
                   \o RefSurfaced(f, it, after, b)
            ELSE t.text \o RefSurfaced(f, it, a + 1, b)

-----------------------------------------------------------------------------
(* C1: read_until_end_tag keeps a depth counter that starts at 1, grows by 1
   on every later start tag named T, shrinks by 1 on every later end tag
   named T, is left alone by every other token kind, and the scan stops at
   exactly the end tag named T that brings the counter to 0. *)
C1_Delta(t) ==
    IF t = None THEN 0
    ELSE IF t.ty = "StartTag" /\ Named(fmt, t, tag) THEN 1
    ELSE IF t.ty = "EndTag" /\ Named(fmt, t, tag) THEN -1
    ELSE 0

C1_DepthCounter ==
    [][pc = "loop" =>
         /\ start_count >= 1
         /\ start_count' = start_count + C1_Delta(Peek)
         /\ (pc' = "break") <=> (start_count + C1_Delta(Peek) = 0)
         /\ (pc' = "break") => (Peek.ty = "EndTag" /\ Named(fmt, Peek, tag))
         /\ (pc' = "exhausted") <=> (Peek = None)]_vars

C1_Witness ==
    /\ pc = "break"
    /\ \E k \in 2..NToks : /\ input.toks[k].hi < pos
                            /\ input.toks[k].ty = "StartTag"
                            /\ Named(fmt, input.toks[k], tag)

(* C2: when a matching end tag exists, the content window is the bytes from
   just after the start tag up to the first byte of the matching end tag,
   and the cursor is left immediately after that end tag. *)
C2_ContentWindow ==
    (pc = "done" /\ RefMatch(fmt, 1, NToks) # 0) =>
        /\ content = Reader(TokEnd(1), TokStart(RefMatch(fmt, 1, NToks)))
        /\ pos = TokEnd(RefMatch(fmt, 1, NToks))

C2_Witness ==
    /\ pc = "done"
    /\ RefMatch(fmt, 1, NToks) > 2
    /\ RefMatch(fmt, 1, NToks) < NToks
    /\ content.hi > content.lo

(* C3: when an element contains a same-named element, the outer element's
   content window spans up to the outer end tag only; the outer container's
   nested iterator yields the inner elements and is then exhausted; and the
   parent iterator's next element is what follows the outer end tag. *)
C3_HasSameNamedInside(s, m) ==
    \E j \in (s + 1)..(m - 1) :
        /\ input.toks[j].ty \in {"StartTag", "EmptyElementTag"}
        /\ Named(fmt, input.toks[j], input.toks[s])

C3_SameNameNesting ==
    \A i \in 1..Len(iters) : \A k \in 1..Len(yielded[i]) :
        LET e == yielded[i][k]
            s == IdxOf(e.tag)
            m == RefMatch(fmt, s, WinLast(iters[i].reader))
            nxt == NextVisible(m, WinLast(iters[i].reader))
        IN (FromStartTag(e) /\ m # 0 /\ C3_HasSameNamedInside(s, m)) =>
            /\ e.content = Reader(TokEnd(s), TokStart(m))
            /\ \A c \in Children(i, k) : \A q \in 1..Len(yielded[c]) :
                   IF q <= Len(RefYield(fmt, s + 1, m - 1))
                     THEN /\ yielded[c][q] # None
                          /\ IdxOf(yielded[c][q].tag) = RefYield(fmt, s + 1, m - 1)[q]
                     ELSE yielded[c][q] = None
            /\ k < Len(yielded[i]) =>
                   IF nxt = 0 THEN yielded[i][k + 1] = None
                   ELSE yielded[i][k + 1] # None /\ yielded[i][k + 1].tag = input.toks[nxt]

C3_Witness ==
    /\ fmt = "opml"
    /\ \E i \in 1..Len(iters) : \E k \in 1..(Len(yielded[i]) - 1) :
         /\ FromStartTag(yielded[i][k])
         /\ yielded[i][k].variant = "Outline"
         /\ yielded[i][k + 1] # None
         /\ yielded[i][k + 1].variant = "Outline"
         /\ \E c \in Children(i, k) :
              /\ Len(yielded[c]) = 2
              /\ yielded[c][1] # None
              /\ yielded[c][1].variant = "Outline"
              /\ yielded[c][1].tag.ty = "StartTag"
              /\ yielded[c][2] = None

(* C4: after next() returned an element built from a start tag that has a
   matching end tag, the same iterator's following next() resumes at the
   token right after that end tag; an iterator never yields a token that
   lies inside the content window of an element it yielded; and it yields
   in document order. *)
C4_ResumesAfterWindow ==
    \A i \in 1..Len(iters) : \A k \in 1..Len(yielded[i]) :
        LET e == yielded[i][k]
            b == WinLast(iters[i].reader)
            m == RefMatch(fmt, IdxOf(e.tag), b)
        IN e # None =>
            /\ (FromStartTag(e) /\ m # 0 /\ k < Len(yielded[i])) =>
                   IF NextVisible(m, b) = 0 THEN yielded[i][k + 1] = None
                   ELSE /\ yielded[i][k + 1] # None
                        /\ yielded[i][k + 1].tag = input.toks[NextVisible(m, b)]
            /\ \A q \in 1..Len(yielded[i]) :
                   (q # k /\ yielded[i][q] # None) =>
                       /\ (k < q) => e.tag.hi <= yielded[i][q].tag.lo
                       /\ FromStartTag(e) =>
                              ~(/\ e.content.lo <= yielded[i][q].tag.lo
                                /\ yielded[i][q].tag.lo < e.content.hi)

C4_Witness ==
    \E i \in 1..Len(iters) : \E k \in 1..(Len(yielded[i]) - 1) :
        /\ FromStartTag(yielded[i][k])
        /\ yielded[i][k].content.hi > yielded[i][k].content.lo
        /\ RefMatch(fmt, IdxOf(yielded[i][k].tag), WinLast(iters[i].reader)) # 0
        /\ yielded[i][k + 1] # None

(* C5: a next() call on one iterator leaves the buffer and every other
   iterator (its reader, its cursor, and so all it will yield later) as
   they were; in particular calls on a nested iterator do not move its
   parent. *)
C5_Frame ==
    [][\A i \in 1..Len(iters) :
          yielded'[i] # yielded[i] =>
              /\ input' = input
              /\ \A j \in 1..Len(iters) :
                     j # i => /\ iters'[j] = iters[j]
                              /\ yielded'[j] = yielded[j]]_vars

C5_Witness ==
    \E c \in 1..Len(iters) :
        /\ iters[c].parent # 0
        /\ Len(yielded[c]) >= 2
        /\ yielded[c][1] # None
        /\ Len(yielded[iters[c].parent]) = iters[c].from
        /\ next(fmt, iters[iters[c].parent]).item # None

(* C6: once next() of an iterator has returned None, every later next()
   call on it returns None as well. *)
C6_ExhaustedIsTerminal ==
    \A i \in 1..Len(iters) : \A k \in 1..(Len(yielded[i]) - 1) :
        yielded[i][k] = None => yielded[i][k + 1] = None

C6_Witness ==
    \E i \in 1..Len(iters) :
        /\ Len(yielded[i]) >= 3
        /\ yielded[i][1] # None
        /\ yielded[i][Len(yielded[i]) - 1] = None
        /\ yielded[i][Len(yielded[i])] = None

(* C7: when the token stream ends before the depth counter reaches 0,
   read_until_end_tag returns the end position of the last token it read,
   or the starting position when it read none, and the slice bounds are valid. *)
C7_TruncatedEnd ==
    pc = "exhausted" =>
        /\ end = TokEnd(NToks)
        /\ (NToks = 1 => end = begin)
        /\ begin <= end /\ end <= BufLen

C7_Witness ==
    /\ pc = "exhausted"
    /\ NToks >= 3
    /\ input.frag > 0
    /\ start_count >= 2

(* C8 as stated: a start tag with no matching end tag gets a content window
   that ends at the length of the buffer, also when the buffer ends in a
   fragment the token source does not return. *)
C8_Original ==
    (pc = "done" /\ RefMatch(fmt, 1, NToks) = 0) => content.hi = BufLen

(* C8 amended: a start tag with no matching end tag gets a content window
   that ends at the end of the last complete token; that is the length of
   the buffer exactly when the buffer does not end in a fragment the token
   source does not return. *)
C8_Amended ==
    (pc = "done" /\ RefMatch(fmt, 1, NToks) = 0) =>
        /\ content.lo = TokEnd(1)
        /\ content.hi = BufLen - Len(FragText(input.frag))
        /\ (content.hi = BufLen) <=> (input.frag = 0)

C8_Witness ==
    /\ pc = "done"
    /\ RefMatch(fmt, 1, NToks) = 0
    /\ input.frag > 0
    /\ content.hi > content.lo
    /\ content.hi < BufLen

(* C9 as stated: what the iterators surface over all nesting levels,
   concatenated in order, is the input with only the whitespace-only
   character runs removed; no start tag, end tag or trailing fragment is lost. *)
C9_Original ==
    AllDone => Surfaced(1, 1) = VisibleText(1, NToks) \o FragText(input.frag)

(* C9 amended: what the iterators surface over all nesting levels,
   concatenated in order, is the input with these removed: the
   whitespace-only character runs an iterator reads at its own level, the
   end tag that closes each yielded element's content window, and a
   trailing fragment the token source does not return; no start tag and no
   other token is lost. *)
C9_Amended ==
    AllDone => Surfaced(1, 1) = RefSurfaced(fmt, "Iter", 1, NToks)

C9_Witness ==
    /\ AllDone
    /\ input.frag > 0
    /\ Len(iters) >= 2
    /\ \E i \in 1..Len(iters) : \E k \in 1..Len(yielded[i]) :
         /\ FromStartTag(yielded[i][k])
         /\ RefMatch(fmt, IdxOf(yielded[i][k].tag), WinLast(iters[i].reader)) # 0
    /\ \E i \in 1..Len(iters) : \E j \in InRange(iters[i].reader) :
         /\ IsBlank(input.toks[j])
         /\ input.toks[j].hi <= iters[i].reader.lo + iters[i].pos
         /\ \A k \in 1..Len(yielded[i]) :
              (yielded[i][k] # None /\ yielded[i][k].kind # "raw") =>
                  ~(yielded[i][k].content.lo <= input.toks[j].lo
                    /\ input.toks[j].hi <= yielded[i][k].content.hi)

(* C10: at every nesting level the dispatcher returns one variant for a
   tag: the variant of the level's name that equals the tag's local name
   without regard to ASCII letter case, whatever the namespace prefix, and
   Unknown with the same tag and content slice when no name of the level
   equals it. *)
C10_Hits ==
    {k \in 1..Len(Vocabulary(fmt, iters[1].ty)) :
        to_ascii_lowercase(Vocabulary(fmt, iters[1].ty)[k].name) = to_ascii_lowercase(tag.local)}

C10_Dispatch ==
    pc = "dispatched" =>
        /\ elem.tag = tag
        /\ elem.content = content
        /\ IF C10_Hits = {}
             THEN elem.variant = "Unknown" /\ elem.kind = "content"
             ELSE \A k \in C10_Hits :
                     /\ elem.variant = Vocabulary(fmt, iters[1].ty)[k].variant
                     /\ elem.kind = Vocabulary(fmt, iters[1].ty)[k].kind
                     /\ elem.iter = Vocabulary(fmt, iters[1].ty)[k].iter

C10_Witness ==
    /\ pc = "dispatched"
    /\ elem.variant = "ManagingEditor"
    /\ tag.local = "MANAGINGEDITOR"
    /\ tag.prefix = "p"
    /\ content.hi > content.lo

(* C11 as stated: in every format a later start or end tag that differs from
   the opening tag only in its namespace prefix counts as the same name: it
   moves the depth counter, and as an end tag at depth 1 it closes the window. *)
C11_SameLocal(t) ==
    /\ t # None
    /\ t.ty \in {"StartTag", "EndTag"}
    /\ eq_ignore_ascii_case(t.local, tag.local)

C11_Step(t) == IF t.ty = "StartTag" THEN 1 ELSE -1

C11_Original ==
    [][(pc = "loop" /\ C11_SameLocal(Peek)) =>
          /\ start_count' = start_count + C11_Step(Peek)
          /\ (pc' = "break") <=> (Peek.ty = "EndTag" /\ start_count = 1)]_vars

(* C11 amended: the Atom extractor compares the whole qualified name, prefix
   and local name, without regard to ASCII letter case, so a tag that differs
   from the opening tag only in its prefix is another name: it neither moves
   the depth counter nor closes the window.  The RSS and OPML extractor
   compares local names only, so there such a tag counts as the same name. *)
C11_Counts(t) ==
    IF fmt = "atom" THEN eq_ignore_ascii_case(t.prefix, tag.prefix) ELSE TRUE

C11_Amended ==
    [][(pc = "loop" /\ C11_SameLocal(Peek)) =>
          /\ start_count' = start_count + (IF C11_Counts(Peek) THEN C11_Step(Peek) ELSE 0)
          /\ (pc' = "break") <=>
                 (C11_Counts(Peek) /\ Peek.ty = "EndTag" /\ start_count = 1)]_vars

C11_Witness ==
    /\ fmt = "atom"
    /\ pc = "loop"
    /\ start_count = 1
    /\ \E k \in 2..NToks :
         /\ input.toks[k].hi = pos
         /\ input.toks[k].ty = "EndTag"
         /\ eq_ignore_ascii_case(input.toks[k].local, tag.local)
         /\ ~eq_ignore_ascii_case(input.toks[k].prefix, tag.prefix)

(* C12: an empty-element tag is dispatched with the empty content and
   without a window scan: the next() call that returns it leaves the cursor
   right after the tag (tag's length further when the tag is at the cursor),
   a leaf variant has content "", and a container variant's nested iterator
   reads the empty string and returns None from its first next(). *)
C12_Last(i) == yielded'[i][Len(yielded'[i])]

C12_EmptyElement ==
    [][\A i \in 1..Len(iters) :
          (/\ yielded'[i] # yielded[i]
           /\ C12_Last(i) # None
           /\ C12_Last(i).kind # "raw"
           /\ C12_Last(i).tag.ty = "EmptyElementTag") =>
              /\ C12_Last(i).content = EmptyContent
              /\ C12_Last(i).content.hi - C12_Last(i).content.lo = 0
              /\ iters'[i].pos = C12_Last(i).tag.hi - iters[i].reader.lo
              /\ tokenize(iters[i].reader, iters[i].pos).tok = C12_Last(i).tag =>
                     iters'[i].pos = iters[i].pos + Len(C12_Last(i).tag.text)
              /\ (C12_Last(i).kind = "content") <=> (Len(iters') = Len(iters))
              /\ C12_Last(i).kind = "iter" =>
                     /\ Len(iters') = Len(iters) + 1
                     /\ iters'[Len(iters')] =
                            [ty |-> C12_Last(i).iter, reader |-> EmptyContent, pos |-> 0,
                             parent |-> i, from |-> Len(yielded'[i])]
                     /\ next(fmt, [ty |-> C12_Last(i).iter, reader |-> EmptyContent,
                                   pos |-> 0, parent |-> i,
                                   from |-> Len(yielded[i]) + 1]).item = None]_vars

C12_Witness ==
    \E i \in 1..Len(iters) : \E k \in 1..Len(yielded[i]) : \E q \in 1..Len(yielded[i]) :
        /\ yielded[i][k] # None
        /\ yielded[i][k].variant = "Link"
        /\ yielded[i][k].tag.ty = "EmptyElementTag"
        /\ yielded[i][q] # None
        /\ yielded[i][q].variant = "Entry"
        /\ yielded[i][q].tag.ty = "EmptyElementTag"
        /\ \E c \in Children(i, q) : yielded[c] = <<None>>

(* C13: next() consumes a whitespace-only character run and never returns
   it; any other token that is not a start or empty-element tag (end tag,
   comment, CDATA, declaration, processing instruction, other character run)
   is returned as Raw with the token as it was read, and the cursor is left
   right after that token (its length further when it is at the cursor). *)
C13_Last(i) == yielded'[i][Len(yielded'[i])]

C13_RawOrSkipped ==
    [][\A i \in 1..Len(iters) :
          yielded'[i] # yielded[i] =>
              LET n == RefPending(iters[i]) IN
              /\ C13_Last(i) # None => ~IsBlank(C13_Last(i).tag)
              /\ (C13_Last(i) # None /\ C13_Last(i).kind = "raw") <=>
                     (n # 0 /\ input.toks[n].ty \notin {"StartTag", "EmptyElementTag"})
              /\ (n # 0 /\ input.toks[n].ty \notin {"StartTag", "EmptyElementTag"}) =>
                     /\ C13_Last(i).tag = input.toks[n]
                     /\ iters'[i].pos = input.toks[n].hi - iters[i].reader.lo
                     /\ tokenize(iters[i].reader, iters[i].pos).tok = input.toks[n] =>
                            iters'[i].pos = iters[i].pos + Len(input.toks[n].text)]_vars

C13_Witness ==
    \E k \in 1..Len(yielded[1]) : \E j \in 1..NToks :
        /\ yielded[1][k] # None
        /\ yielded[1][k].kind = "raw"
        /\ yielded[1][k].tag.ty = "Cdata"
        /\ IsBlank(input.toks[j])
        /\ input.toks[j].hi = yielded[1][k].tag.lo
        /\ iters[1].pos = yielded[1][k].tag.hi

(* C14: the cursor of an iterator never decreases across its next() calls,
   and the byte ranges of the elements one iterator has yielded are valid
   sub-ranges of the buffer (and of the iterator's own input), do not
   overlap, and come in strictly increasing order. *)
C14_Items(i) == {k \in 1..Len(yielded'[i]) : yielded'[i][k] # None}

C14_MonotoneRanges ==
    [][\A i \in 1..Len(iters) :
          yielded'[i] # yielded[i] =>
              /\ iters'[i].pos >= iters[i].pos
              /\ iters'[i].reader.lo + iters'[i].pos <= iters'[i].reader.hi
              /\ \A k \in C14_Items(i) :
                     LET e == yielded'[i][k] IN
                     /\ 0 <= Span(e).lo /\ Span(e).lo < Span(e).hi /\ Span(e).hi <= BufLen
                     /\ iters[i].reader.lo <= Span(e).lo
                     /\ Span(e).hi <= iters[i].reader.lo + iters'[i].pos
                     /\ e.tag.hi <= Span(e).hi
                     /\ FromStartTag(e) => e.content.lo = e.tag.hi
                     /\ \A q \in C14_Items(i) :
                            k < q => /\ Span(e).hi <= Span(yielded'[i][q]).lo
                                     /\ Span(e).lo < Span(yielded'[i][q]).lo]_vars

C14_Witness ==
    \E i \in 2..Len(iters) :
        /\ Len(yielded[i]) >= 2
        /\ FromStartTag(yielded[i][1])
        /\ yielded[i][1].content.hi > yielded[i][1].content.lo
        /\ yielded[i][2] # None
        /\ iters[i].pos > 0

(* C15: a nested iterator is bound to its container's content window: its
   input is that window, it yields in order exactly the elements whose
   tokens lie inside the window and then None, it returns None once its
   position reaches the window's end, and it never yields a token outside
   the window.  For <feed><title>T</title><entry><id>1</id></entry></feed>
   the feed level yields Title "T" then Entry, the entry level yields
   Id "1", and then both are exhausted. *)
C15_Variants(i) ==
    LET some == SelectSeq(yielded[i], LAMBDA e : e # None)
    IN [k \in 1..Len(some) |-> some[k].variant]

C15_BoundToWindow ==
    /\ \A c \in 1..Len(iters) :
         LET rd == iters[c].reader
             ref == RefYield(fmt, WinFirst(rd), WinLast(rd))
         IN /\ iters[c].parent # 0 =>
                  /\ yielded[iters[c].parent][iters[c].from].kind = "iter"
                  /\ rd = yielded[iters[c].parent][iters[c].from].content
            /\ \A q \in 1..Len(yielded[c]) :
                  IF q <= Len(ref)
                    THEN /\ yielded[c][q] # None
                         /\ IdxOf(yielded[c][q].tag) = ref[q]
                         /\ rd.lo <= Span(yielded[c][q]).lo
                         /\ Span(yielded[c][q]).hi <= rd.hi
                    ELSE yielded[c][q] = None
            /\ rd.lo + iters[c].pos = rd.hi => next(fmt, iters[c]).item = None
    /\ (input.toks = Layout(AtomScenario, 0) /\ AllDone) =>
          /\ Len(iters) = 3
          /\ C15_Variants(1) = <<"Feed">>
          /\ C15_Variants(2) = <<"Title", "Entry">>
          /\ SliceText(yielded[2][1].content) = "T"
          /\ C15_Variants(3) = <<"Id">>
          /\ SliceText(yielded[3][1].content) = "1"
          /\ iters[3].parent = 2 /\ iters[3].from = 2

C15_Witness ==
    /\ input.toks = Layout(AtomScenario, 0)
    /\ AllDone
    /\ Len(iters) = 3
    /\ Len(yielded[2]) = 3
    /\ Len(yielded[3]) = 2

(* C16: every next() call returns, for inputs that end in the middle of an
   element as well; a call that returns an element leaves the cursor
   strictly further than it found it, a call that returns None does not move
   it back, and the cursor stays within the iterator's input: so an
   iterator yields at most as many elements as its input has bytes and then
   returns None. *)
C16_Elements(i) == Cardinality({k \in 1..Len(yielded'[i]) : yielded'[i][k] # None})

C16_Terminates ==
    [][\A i \in 1..Len(iters) :
          yielded'[i] # yielded[i] =>
              LET r == next(fmt, iters[i])
                  last == yielded'[i][Len(yielded'[i])]
              IN /\ last = r.item
                 /\ iters'[i].pos = r.pos
                 /\ last # None => iters'[i].pos > iters[i].pos
                 /\ last = None => iters'[i].pos >= iters[i].pos
                 /\ iters'[i].pos <= iters[i].reader.hi - iters[i].reader.lo
                 /\ C16_Elements(i) <= iters'[i].pos
                 /\ (iters[i].pos = iters[i].reader.hi - iters[i].reader.lo) => last = None]_vars

C16_Witness ==
    /\ AllDone
    /\ Len(iters) >= 2
    /\ NToks >= 3
    /\ input.toks[NToks].ty = "Characters"
    /\ \A j \in 1..NToks : input.toks[j].ty # "EndTag"
    /\ \E i \in 1..Len(iters) : \E k \in 1..Len(yielded[i]) :
         /\ FromStartTag(yielded[i][k])
         /\ yielded[i][k].kind = "content"
         /\ yielded[i][k].content.hi = TokEnd(NToks)

(* C17: no sequence of next() calls on any iterators reaches a failure, for
   inputs with mismatched tags, unknown elements and truncated streams
   alike: no slice expression panics, and every item returned is an element
   of the level's vocabulary, Unknown, or Raw, a start tag without matching
   end tag getting the window that ends with the last token read. *)
C17_Resolved(i, e) ==
    \/ /\ e.kind = "raw"
       /\ e.variant = "Raw"
       /\ e.tag.ty \notin {"StartTag", "EmptyElementTag"}
    \/ /\ e.kind = "content"
       /\ e.variant = "Unknown"
       /\ e.tag.ty \in {"StartTag", "EmptyElementTag"}
    \/ /\ e.kind \in {"content", "iter"}
       /\ e.tag.ty \in {"StartTag", "EmptyElementTag"}
       /\ \E k \in 1..Len(Vocabulary(fmt, iters[i].ty)) :
              /\ e.variant = Vocabulary(fmt, iters[i].ty)[k].variant
              /\ e.kind = Vocabulary(fmt, iters[i].ty)[k].kind

C17_NoFailure ==
    \A i \in 1..Len(iters) :
        /\ iters[i].reader # Panic
        /\ iters[i].reader.lo <= iters[i].reader.hi
        /\ next(fmt, iters[i]).item # None => next(fmt, iters[i]).item.content # Panic
        /\ \A k \in 1..Len(yielded[i]) :
               LET e == yielded[i][k] IN
               e # None =>
                   /\ e.content # Panic
                   /\ e.content.lo <= e.content.hi
                   /\ e.content.hi <= BufLen
                   /\ C17_Resolved(i, e)
                   /\ (FromStartTag(e)
                       /\ RefMatch(fmt, IdxOf(e.tag), WinLast(iters[i].reader)) = 0) =>
                          e.content = Reader(e.tag.hi, TokEnd(WinLast(iters[i].reader)))

C17_Witness ==
    /\ AllDone
    /\ \E i \in 1..Len(iters) : \E k \in 1..Len(yielded[i]) : \E q \in 1..Len(yielded[i]) :
         /\ yielded[i][k] # None
         /\ yielded[i][k].kind = "raw"
         /\ yielded[i][k].tag.ty = "EndTag"
         /\ FromStartTag(yielded[i][q])
         /\ yielded[i][q].variant = "Unknown"
         /\ RefMatch(fmt, IdxOf(yielded[i][q].tag), WinLast(iters[i].reader)) = 0

(* C18: find_attribute goes through the tag's attributes in order and
   returns the value of the first attribute whose name equals the name asked
   for without regard to ASCII letter case; it returns None when no attribute
   has that name and when the tag has no attribute list. *)
C18_Hits ==
    {k \in 1..Len(tag.attrs.list) :
        to_ascii_lowercase(tag.attrs.list[k].name) = to_ascii_lowercase(needle)}

C18_FindAttribute ==
    pc = "returned" =>
        /\ result = find_attribute(tag, needle)
        /\ IF tag.attrs = None THEN result = None
           ELSE IF C18_Hits = {} THEN result = None
           ELSE \E k \in C18_Hits :
                   /\ \A j \in C18_Hits : k <= j
                   /\ result = tag.attrs.list[k].value
                   /\ pos = tag.attrs.list[k].lo

C18_Witness ==
    /\ pc = "returned"
    /\ tag.attrs # None
    /\ Len(tag.attrs.list) = 3
    /\ needle = "href"
    /\ tag.attrs.list[1].name = "rel"
    /\ tag.attrs.list[2].name = "HREF"
    /\ tag.attrs.list[3].name = "href"
    /\ tag.attrs.list[2].value = Some("2")
    /\ tag.attrs.list[3].value = Some("1")
    /\ result = Some("2")

(* C19: when the first character of the input that is not white space is
   '<', detect_type's result is fixed by the first decisive token alone: a
   start or empty-element tag with local name rss, in any letter case and
   with any prefix, gives Rss, one with local name feed gives Atom, any other
   start or empty-element tag, any end tag, and a character or CDATA run
   that is not white space only gives XmlOrHtml; comments, declarations,
   processing instructions and runs of (ASCII) white space only, which is
   what the token scan tests, are passed over. *)
C19_Decisive(t) ==
    \/ t.ty \in {"StartTag", "EmptyElementTag", "EndTag"}
    \/ t.ty = "Characters" /\ \E k \in 1..Len(chars(t.text)) :
                                  chars(t.text)[k] \notin {" ", "\t", "\n", "\r"}
    \/ t.ty = "Cdata" /\ t.text # "<![CDATA[ ]]>"

C19_First ==
    LET ds == {k \in 1..NToks : C19_Decisive(input.toks[k])}
    IN IF ds = {} THEN 0 ELSE CHOOSE k \in ds : \A j \in ds : k <= j

C19_Expected(t) ==
    IF t.ty \in {"StartTag", "EmptyElementTag"} /\ to_ascii_lowercase(t.local) = "rss"
      THEN "Rss"
    ELSE IF t.ty \in {"StartTag", "EmptyElementTag"} /\ to_ascii_lowercase(t.local) = "feed"
      THEN "Atom"
    ELSE "XmlOrHtml"

C20_FirstCharacter ==
    pc = "returned" =>
        LET c == FirstNonWhitespace(1) IN
        /\ result = detect_type
        /\ c \in {Some("{"), Some("[")} => result = "Json"
        /\ (c # None /\ c.value \notin {"{", "[", "<"}) => result = "Unknown"
        /\ c = None => result = "Unknown"
        /\ (c = Some("<") /\ C19_First = 0) => result = "Unknown"
        /\ c # Some("<") => pos = 0

C20_Witness ==
    /\ pc = "returned"
    /\ result = "Json"
    /\ NToks = 3
    /\ input.toks[1].text = " {"
    /\ input.toks[2].local = "rss"
    /\ input.toks[2].ty = "StartTag"

(* C26: the leading-character scan and the token scan of detect_type pass
   over the same things: whenever the first character the leading scan does
   not skip is the '<' of a start tag with local name rss or feed, the result
   is Rss or Atom, whichever white space characters, ASCII or not, come
   before that tag. *)
C26_Leading(t) ==
    /\ t.ty = "Characters"
    /\ \A k \in 1..Len(chars(t.text)) : is_whitespace(chars(t.text)[k])

C26_FirstKept ==
    LET ks == {k \in 1..NToks : ~C26_Leading(input.toks[k])}
    IN IF ks = {} THEN 0 ELSE CHOOSE k \in ks : \A j \in ks : k <= j

C26_ScansAgree ==
    (/\ pc = "returned"
     /\ C26_FirstKept # 0
     /\ input.toks[C26_FirstKept].ty = "StartTag"
     /\ to_ascii_lowercase(input.toks[C26_FirstKept].local) \in {"rss", "feed"}) =>
        result = IF to_ascii_lowercase(input.toks[C26_FirstKept].local) = "rss"
                   THEN "Rss" ELSE "Atom"

(* C27: detect_type has no OPML outcome: when the first decisive token of the
   document is a start tag named opml the result is XmlOrHtml, and every
   result is one of Atom, Json, Rss, Unknown and XmlOrHtml. *)
C27_NoOpmlOutcome ==
    pc = "returned" =>
        /\ result \in Ty
        /\ result = detect_type
        /\ (/\ C19_First # 0
            /\ input.toks[C19_First].ty = "StartTag"
            /\ to_ascii_lowercase(input.toks[C19_First].local) = "opml") =>
               result = "XmlOrHtml"

C27_Witness ==
    /\ pc = "returned"
    /\ result = "XmlOrHtml"
    /\ NToks = 3
    /\ input.toks[1].text = " "
    /\ input.toks[2].ty = "Declaration"
    /\ input.toks[3].ty = "StartTag"
    /\ input.toks[3].local = "opml"
    /\ pos = input.toks[3].hi

\* each variant of Ty is the result for some document
C27_Atom == pc = "returned" /\ result = "Atom"

C27_Json == pc = "returned" /\ result = "Json"

C27_Rss == pc = "returned" /\ result = "Rss"

C27_Unknown == pc = "returned" /\ result = "Unknown"

(* C28: find_attribute stops at the first attribute whose name matches: when
   that attribute has no value the result is None, also when a later
   attribute of the same name has a value, and no attribute after the first
   match is read. *)
C28_FirstHit == CHOOSE k \in C18_Hits : \A j \in C18_Hits : k <= j

C28_StopsAtFirstMatch ==
    (/\ pc = "returned"
     /\ tag.attrs # None
     /\ C18_Hits # {}
     /\ tag.attrs.list[C28_FirstHit].value = None) =>
        /\ result = None
        /\ pos = tag.attrs.list[C28_FirstHit].lo

C28_Witness ==
    /\ pc = "returned"
    /\ tag.attrs # None
    /\ Len(tag.attrs.list) = 3
    /\ needle = "href"
    /\ tag.attrs.list[1].name = "rel"
    /\ tag.attrs.list[2].name = "HREF"
    /\ tag.attrs.list[2].value = None
    /\ tag.attrs.list[3].name = "href"
    /\ tag.attrs.list[3].value = Some("1")
    /\ result = None
    /\ pos = tag.attrs.list[2].lo

(* C21: over one unmodified buffer a second run of detect_type returns what
   the first returned, and two iterators of the same format constructed over
   the buffer return the same item at the same call, as do the iterators they
   hand out at the same call; a run of detect_type changes neither the
   buffer nor any iterator, whenever it happens among the next() calls. *)
C21_SameYields ==
    \A a, b \in 1..Len(iters) :
        Twin(a, b) =>
            /\ iters[a].ty = iters[b].ty
            /\ iters[a].reader = iters[b].reader
            /\ \A k \in 1..Len(yielded[a]) :
                  k <= Len(yielded[b]) => yielded[a][k] = yielded[b][k]
            /\ Len(yielded[a]) = Len(yielded[b]) => iters[a].pos = iters[b].pos

C21_DetectStep ==
    pc' # pc =>
        /\ pc = "detected" => result' = result
        /\ input' = input
        /\ iters' = iters
        /\ yielded' = yielded

C25_SliceBounds ==
    /\ begin <= end
    /\ end <= pos
    /\ pos <= BufLen
    /\ end <= BufLen
    /\ pc = "done" =>
          /\ content # Panic
          /\ content = Reader(begin, end)
          /\ \E k \in 1..NToks : input.toks[k].hi = end

C25_Witness ==
    /\ pc = "done"
    /\ input.frag = 1
    /\ NToks = 4
    /\ input.toks[2].ty = "Characters"
    /\ input.toks[3].ty = "EndTag" /\ input.toks[3].local = "b"
    /\ input.toks[4].ty = "StartTag" /\ input.toks[4].local = "a"
    /\ begin = input.toks[1].hi
    /\ end = input.toks[4].hi
    /\ pos = end
    /\ end < BufLen

(* C24: a start tag with no matching end tag inside the iterator's window
   takes every later token of the window into its content, end tags of other
   names included: the content reaches from the end of the start tag to the
   end of the last token of the window, and after that element the iterator
   returns None only. *)
C24_Unclosed(i, k) ==
    /\ FromStartTag(yielded[i][k])
    /\ RefMatch(fmt, IdxOf(yielded[i][k].tag), WinLast(iters[i].reader)) = 0

C24_AbsorbsSiblings ==
    \A i \in 1..Len(iters) :
        \A k \in 1..Len(yielded[i]) :
            C24_Unclosed(i, k) =>
                LET e == yielded[i][k] IN
                /\ e.content = Reader(e.tag.hi, TokEnd(WinLast(iters[i].reader)))
                /\ \A t \in InRange(iters[i].reader) :
                      t > IdxOf(e.tag) =>
                          /\ input.toks[t].lo >= e.content.lo
                          /\ input.toks[t].hi <= e.content.hi
                /\ \A j \in (k + 1)..Len(yielded[i]) : yielded[i][j] = None
                /\ next(fmt, iters[i]).item = None

C24_Witness ==
    /\ fmt = "rss"
    /\ NToks = 3
    /\ input.toks[1].ty = "StartTag" /\ input.toks[1].local = "rss"
    /\ input.toks[2].ty = "EndTag" /\ input.toks[2].local = "channel"
    /\ input.toks[3].ty = "EmptyElementTag"
    /\ Len(yielded[1]) = 2
    /\ C24_Unclosed(1, 1)
    /\ yielded[1][1].variant = "Rss"
    /\ yielded[1][1].content = Reader(input.toks[1].hi, input.toks[3].hi)
    /\ yielded[1][2] = None

(* C23: the reader of every nested iterator is the content slice of the
   element that handed it out, so its window is a sub-range of its parent's
   window at every nesting depth, and nothing the nested iterator reads or
   returns, the content of an unclosed nested start tag included, reaches
   past the end of that window. *)
C23_Within(r, w) == w.lo <= r.lo /\ r.lo <= r.hi /\ r.hi <= w.hi

C23_NestedWindows ==
    \A i \in 1..Len(iters) :
        /\ iters[i].parent # 0 =>
              /\ iters[i].reader = yielded[iters[i].parent][iters[i].from].content
              /\ C23_Within(iters[i].reader, iters[iters[i].parent].reader)
        /\ C23_Within(iters[i].reader, TopReader)
        /\ iters[i].reader.lo + iters[i].pos <= iters[i].reader.hi
        /\ \A k \in 1..Len(yielded[i]) :
              yielded[i][k] # None =>
                  /\ C23_Within(Reader(yielded[i][k].tag.lo, yielded[i][k].tag.hi),
                                iters[i].reader)
                  /\ FromStartTag(yielded[i][k]) =>
                        C23_Within(yielded[i][k].content, iters[i].reader)

C23_Witness ==
    /\ fmt = "rss"
    /\ input.toks = Layout(RerunScenario("rss"), 0)
    /\ \E i \in 1..Len(iters) :
          /\ iters[i].ty = "ChannelIter"
          /\ iters[iters[i].parent].ty = "RssIter"
          /\ iters[i].reader = Reader(input.toks[3].lo, input.toks[3].hi)
          /\ Len(yielded[i]) = 2
          /\ yielded[i][1] # None
          /\ yielded[i][1].tag = input.toks[3]
          /\ yielded[i][1].content = Reader(input.toks[3].hi, input.toks[3].hi)
          /\ yielded[i][2] = None

(* C30: at every nesting level of every format no two names of the level
   are equal without regard to ASCII letter case, so a tag matches at most
   one line of the dispatcher and testing the lines in any other order gives
   the same variant. *)
C30_Matches(voc, name) ==
    {k \in 1..Len(voc) : to_ascii_lowercase(voc[k].name) = to_ascii_lowercase(name)}

\* the line that matches when the lines are tested in the reverse order
C30_LastMatch(voc, name) ==
    IF C30_Matches(voc, name) = {} THEN 0
    ELSE CHOOSE k \in C30_Matches(voc, name) : \A j \in C30_Matches(voc, name) : k >= j

C30_NoOverlap ==
    /\ \A f \in DispatchFormats : \A it \in IterTypes(f) :
          \A j, k \in 1..Len(Vocabulary(f, it)) :
              j # k => ~eq_ignore_ascii_case(Vocabulary(f, it)[j].name,
                                             Vocabulary(f, it)[k].name)
    /\ pc = "dispatched" =>
          LET voc == Vocabulary(fmt, iters[1].ty) IN
          /\ Cardinality(C30_Matches(voc, tag.local)) <= 1
          /\ FirstMatch(voc, local_name(tag), 1) = C30_LastMatch(voc, tag.local)
          /\ \A k \in C30_Matches(voc, tag.local) :
                elem.variant = voc[k].variant /\ elem.kind = voc[k].kind

C30_Witness ==
    /\ pc = "dispatched"
    /\ fmt = "atom"
    /\ iters[1].ty = "EntryIter"
    /\ tag.local = "ID"
    /\ elem.variant = "Id"
    /\ C30_LastMatch(atom_EntryElem, tag.local) = 5

(* C29: for a start or empty-element tag named link the scanner returns
   FeedUrl(href) exactly when the tag has an href value and its trimmed rel
   is alternate or feed or its trimmed type is application/rss+xml or
   application/atom+xml, letter case aside; for a link tag with no href
   value it returns nothing; for a tag named base with an href value it
   returns BaseUrl(href). *)
C29_Named(t, n) == t.prefix = "" /\ to_ascii_lowercase(t.local) = n

\* the attributes of tag t that bear the name n and have a value
C29_Valued(t, n) ==
    IF t.attrs = None THEN {}
    ELSE {k \in 1..Len(t.attrs.list) :
             /\ to_ascii_lowercase(t.attrs.list[k].name) = n
             /\ t.attrs.list[k].value # None}

C29_Last(t, n) ==
    t.attrs.list[CHOOSE k \in C29_Valued(t, n) : \A j \in C29_Valued(t, n) : k >= j].value.value

C29_First(t, n) ==
    t.attrs.list[CHOOSE k \in C29_Valued(t, n) : \A j \in C29_Valued(t, n) : k <= j].value.value

C29_Qualifies(t) ==
    /\ C29_Valued(t, "href") # {}
    /\ \/ /\ C29_Valued(t, "rel") # {}
          /\ to_ascii_lowercase(trim(C29_Last(t, "rel"))) \in {"alternate", "feed"}
       \/ /\ C29_Valued(t, "type") # {}
          /\ to_ascii_lowercase(trim(C29_Last(t, "type")))
                \in {"application/rss+xml", "application/atom+xml"}

C29_LinkAndBase ==
    pc \in {"returned", "skipped"} =>
        /\ result = eval_tag(tag)
        /\ C29_Named(tag, "link") =>
              IF C29_Qualifies(tag)
                THEN result = Some(FeedUrl(C29_Last(tag, "href")))
                ELSE result = None
        /\ (result # None /\ result.value.ty = "FeedUrl") =>
              C29_Named(tag, "link") /\ C29_Qualifies(tag)
        /\ (C29_Named(tag, "base") /\ C29_Valued(tag, "href") # {}) =>
              result = Some(BaseUrl(C29_First(tag, "href")))
        /\ (result # None /\ result.value.ty = "BaseUrl") =>
              C29_Named(tag, "base") /\ C29_Valued(tag, "href") # {}

C29_Witness ==
    /\ pc = "returned"
    /\ tag.ty = "EmptyElementTag"
    /\ tag.local = "LINK"
    /\ Len(tag.attrs.list) = 3
    /\ tag.attrs.list[1].name = "href" /\ tag.attrs.list[1].value = None
    /\ tag.attrs.list[2].name = "HREF" /\ tag.attrs.list[2].value = Some("/b")
    /\ tag.attrs.list[3].name = "rel" /\ tag.attrs.list[3].value = Some(" Feed ")
    /\ result = Some(FeedUrl("/b"))

(* C22: the scanner returns one FeedUrl for every qualifying link tag, in
   document order, and nothing for a link tag without a qualifying rel or
   type; after the last tag it returns an item for, next() returns None. *)
C22_IsTag(t) == t.ty \in {"StartTag", "EmptyElementTag"}

\* the tokens the scanner returns an item for
C22_Qualifying ==
    {k \in 1..NToks :
        /\ C22_IsTag(input.toks[k])
        /\ \/ C29_Named(input.toks[k], "link") /\ C29_Qualifies(input.toks[k])
           \/ C29_Named(input.toks[k], "base") /\ C29_Valued(input.toks[k], "href") # {}}

C22_Nth(n) ==
    CHOOSE k \in C22_Qualifying : Cardinality({j \in C22_Qualifying : j <= k}) = n

C22_Items == {k \in 1..Len(yielded[1]) : yielded[1][k] # None}

====
